---- MODULE Spec2Model ----
(***************************************************************************)
(* Model of the ABI-driven binary codec (AbiTypeConverter) and of the      *)
(* endpoint-to-action generator (AbiWarpGenerator) of the                  *)
(* mvx-abi-library-api repository.                                         *)
(*                                                                         *)
(* Representation.                                                         *)
(*   - A type name is a JavaScript string: here a sequence of one-char     *)
(*     strings, so that startsWith / slice / split / trim are computed on  *)
(*     characters exactly as the code computes them.                       *)
(*   - A Buffer is a sequence of bytes 0..255.                             *)
(*   - A string read out of a Buffer is a sequence of character codes.     *)
(*   - A JavaScript number or BigInt is kept as its decimal digits         *)
(*     (character codes 48..57), because u32/u64/BigUint values do not fit *)
(*     the model checker's integers.                                       *)
(*   - A decoded value is a tagged record (see the constructors below).    *)
(***************************************************************************)
EXTENDS Integers, Sequences, FiniteSets, TLC

VARIABLES abi, options, pc, op, hexResponses, responseType, topFlag, convertArg,
          endpointArg, addressArg, result, history

vars == <<abi, options, pc, op, hexResponses, responseType, topFlag, convertArg,
         endpointArg, addressArg, result, history>>

(***************************************************************************)
(* JavaScript string primitives on sequences of characters.                *)
(***************************************************************************)

\* String.prototype.startsWith
StartsWith(s, p) == Len(s) >= Len(p) /\ SubSeq(s, 1, Len(p)) = p

\* String.prototype.endsWith
EndsWith(s, p) == Len(s) >= Len(p) /\ SubSeq(s, Len(s) - Len(p) + 1, Len(s)) = p

\* String.prototype.includes (substring search)
Includes(s, p) == \E i \in 0..(Len(s) - Len(p)) : SubSeq(s, i + 1, i + Len(p)) = p

\* s.slice(start, -dropEnd) and s.slice(start) (dropEnd = 0); start >= 0
Slice(s, start, dropEnd) ==
    IF start + 1 > Len(s) - dropEnd THEN << >>
    ELSE SubSeq(s, start + 1, Len(s) - dropEnd)

\* Buffer.prototype.subarray(from, to): both ends clamped to the buffer
Subarray(data, from, to) ==
    LET f == IF from > Len(data) THEN Len(data) ELSE from
        t == IF to > Len(data) THEN Len(data) ELSE to
    IN  IF f >= t THEN << >> ELSE SubSeq(data, f + 1, t)

RECURSIVE TrimLeft(_)
TrimLeft(s) == IF s # << >> /\ Head(s) = " " THEN TrimLeft(Tail(s)) ELSE s

RECURSIVE TrimRight(_)
TrimRight(s) ==
    IF s # << >> /\ s[Len(s)] = " " THEN TrimRight(SubSeq(s, 1, Len(s) - 1)) ELSE s

\* String.prototype.trim (the blank is the only white space in the type names used)
Trim(s) == TrimRight(TrimLeft(s))

\* Index of the first occurrence of character c in s, 0 when absent
RECURSIVE IndexOfFrom(_, _, _)
IndexOfFrom(s, c, i) ==
    IF i > Len(s) THEN 0
    ELSE IF s[i] = c THEN i
    ELSE IndexOfFrom(s, c, i + 1)

\* String.prototype.split(',') : never empty, "" splits into [""]
RECURSIVE Split(_, _)
Split(s, c) ==
    LET i == IndexOfFrom(s, c, 1)
    IN  IF i = 0 THEN << s >>
        ELSE << SubSeq(s, 1, i - 1) >> \o Split(Slice(s, i, 0), c)

\* Index of the last occurrence of character c in s, 0 when absent
RECURSIVE LastIndexOf(_, _, _)
LastIndexOf(s, c, i) ==
    IF i < 1 THEN 0
    ELSE IF s[i] = c THEN i
    ELSE LastIndexOf(s, c, i - 1)

(***************************************************************************)
(* Numerals: big-endian bytes to decimal digits, without machine integers. *)
(***************************************************************************)

\* digits (least significant first) of  d * m + c
RECURSIVE MulAdd(_, _, _)
MulAdd(d, m, c) ==
    IF d = << >>
    THEN IF c = 0 THEN << >> ELSE << c % 10 >> \o MulAdd(<< >>, m, c \div 10)
    ELSE LET t == d[1] * m + c
         IN  << t % 10 >> \o MulAdd(Tail(d), m, t \div 10)

\* digits (least significant first, no leading zero, << >> for 0) of a big-endian buffer
RECURSIVE DigitsLE(_, _)
DigitsLE(bytes, acc) ==
    IF bytes = << >> THEN acc
    ELSE DigitsLE(Tail(bytes), MulAdd(acc, 256, Head(bytes)))

\* Number.prototype.toString() / BigInt.prototype.toString() of the unsigned
\* big-endian integer held in bytes: character codes of its decimal digits
DecimalOf(bytes) ==
    LET d == DigitsLE(bytes, << >>)
    IN  IF d = << >> THEN << 48 >> ELSE [i \in 1..Len(d) |-> 48 + d[Len(d) + 1 - i]]

HexDigit(n) == IF n < 10 THEN 48 + n ELSE 87 + n

\* Buffer.prototype.toString('hex')
RECURSIVE HexOf(_)
HexOf(bytes) ==
    IF bytes = << >> THEN << >>
    ELSE << HexDigit(Head(bytes) \div 16), HexDigit(Head(bytes) % 16) >> \o HexOf(Tail(bytes))

\* Buffer.prototype.toString('ascii'): the high bit of every byte is dropped
AsciiOf(bytes) == [i \in 1..Len(bytes) |-> bytes[i] % 128]

\* Buffer.prototype.readUInt32BE(0) as a machine integer (used for lengths only)
U32Of(data) == ((data[1] * 256 + data[2]) * 256 + data[3]) * 256 + data[4]

(***************************************************************************)
(* Type names: AbiBaseType, AbiTypePattern and the handler prefixes.       *)
(***************************************************************************)

U8 == << "u", "8" >>
I8 == << "i", "8" >>
U16 == << "u", "1", "6" >>
I16 == << "i", "1", "6" >>
U32 == << "u", "3", "2" >>
I32 == << "i", "3", "2" >>
U64 == << "u", "6", "4" >>
I64 == << "i", "6", "4" >>
Isize == << "i", "s", "i", "z", "e" >>
Usize == << "u", "s", "i", "z", "e" >>
BigUint == << "B", "i", "g", "U", "i", "n", "t" >>
Bool == << "b", "o", "o", "l" >>
Bytes == << "b", "y", "t", "e", "s" >>
Address == << "A", "d", "d", "r", "e", "s", "s" >>
TokenIdentifier ==
    << "T", "o", "k", "e", "n", "I", "d", "e", "n", "t", "i", "f", "i", "e", "r" >>
EgldOrEsdtTokenIdentifier ==
    << "E", "g", "l", "d", "O", "r", "E", "s", "d", "t" >> \o TokenIdentifier

\* Object.values(AbiBaseType)
AbiBaseType ==
    { U8, I8, U16, I16, U32, I32, U64, I64, Isize, Usize, BigUint, Bool, Bytes,
      Address, TokenIdentifier, EgldOrEsdtTokenIdentifier }

\* a variant of NUMERIC_TYPES that counts every primitive as numeric
NUMERIC_TYPES_all == AbiBaseType

NUMERIC_TYPES == { U8, I8, U16, I16, U32, I32, U64, I64, BigUint, Isize, Usize }

\* AbiTypePattern
PatOptional == << "o", "p", "t", "i", "o", "n", "a", "l", "<" >>
PatList == << "L", "i", "s", "t", "<" >>
PatVariadic == << "v", "a", "r", "i", "a", "d", "i", "c", "<" >>
PatOption == << "O", "p", "t", "i", "o", "n", "<" >>
PatMulti == << "m", "u", "l", "t", "i", "<" >>

\* the keys of typeHandlers in readHex, in declaration order
HandlerPrefixes ==
    << << "a", "r", "r", "a", "y" >>,
       << "v", "e", "c" >>,
       << "V", "e", "c" >>,
       << "v", "a", "r", "i", "a", "d", "i", "c" >>,
       << "O", "p", "t", "i", "o", "n" >>,
       << "m", "u", "l", "t", "i" >>,
       << "t", "u", "p", "l", "e" >> >>

(***************************************************************************)
(* Decoded values (what the codec hands back to JavaScript).               *)
(***************************************************************************)

NullV == [k |-> "null"]
\* a number, by the character codes of its decimal digits
NumV(dec) == [k |-> "num", dec |-> dec]
\* a string read out of a buffer, by its character codes
StrV(codes) == [k |-> "str", codes |-> codes]
BoolV(b) == [k |-> "bool", b |-> b]
\* a string taken from the ABI document (a variant name), by its characters
NameV(name) == [k |-> "name", name |-> name]
ArrV(items) == [k |-> "arr", items |-> items]
\* a plain object: its own keys in insertion order, each with its value
ObjV(entries) == [k |-> "obj", entries |-> entries]
\* the bech32 'erd' address of a 32-byte public key (computed by @multiversx/sdk-core)
AddrV(pubkey) == [k |-> "address", pubkey |-> pubkey]

\* result[name] = value on a plain object: a repeated key keeps its first position
ObjSet(entries, name, value) ==
    IF \E i \in 1..Len(entries) : entries[i][1] = name
    THEN [i \in 1..Len(entries) |->
            IF entries[i][1] = name THEN << name, value >> ELSE entries[i]]
    ELSE Append(entries, << name, value >>)

(***************************************************************************)
(* Outcomes of a decode: a pair, a thrown Error, or a loop that never ends.*)
(***************************************************************************)

Ok(value, len) == [st |-> "ok", value |-> value, len |-> len]
\* new Error(...): cause names the throw site, trail the type names that the
\* catch of readHex has prefixed ("Failed to parse type T: ..."), outermost first
Err(cause) == [st |-> "err", cause |-> cause, trail |-> << >>]
Hang == [st |-> "hang"]

\* a variant of the catch that answers null instead of rethrowing
Wrap_swallow(objectType, r) == IF r.st = "err" THEN Ok(NullV, 0) ELSE r

\* catch (error) { throw new Error(`Failed to parse type ${objectType}: ...`) }
Wrap(objectType, r) ==
    IF r.st = "err" THEN [r EXCEPT !.trail = << objectType >> \o @] ELSE r

(***************************************************************************)
(* Base64 and JSON post-processing of nested byte strings.                 *)
(***************************************************************************)

\* the white space String.prototype.trim removes, among the 7-bit codes
WhiteCodes == { 9, 10, 11, 12, 13, 32 }

RECURSIVE TrimCodesLeft(_)
TrimCodesLeft(s) ==
    IF s # << >> /\ Head(s) \in WhiteCodes THEN TrimCodesLeft(Tail(s)) ELSE s

RECURSIVE TrimCodesRight(_)
TrimCodesRight(s) ==
    IF s # << >> /\ s[Len(s)] \in WhiteCodes
    THEN TrimCodesRight(SubSeq(s, 1, Len(s) - 1))
    ELSE s

TrimCodes(s) == TrimCodesRight(TrimCodesLeft(s))

\* value of a character of the base64 alphabet, -1 for any other character
B64Index(c) ==
    IF c >= 65 /\ c <= 90 THEN c - 65
    ELSE IF c >= 97 /\ c <= 122 THEN c - 71
    ELSE IF c >= 48 /\ c <= 57 THEN c + 4
    ELSE IF c = 43 THEN 62
    ELSE IF c = 47 THEN 63
    ELSE -1

\* number of trailing '=' of s (at most 2 are looked at)
B64Pad(s) ==
    IF Len(s) >= 2 /\ s[Len(s)] = 61 /\ s[Len(s) - 1] = 61 THEN 2
    ELSE IF Len(s) >= 1 /\ s[Len(s)] = 61 THEN 1
    ELSE 0

\* Buffer.from(s, 'base64').toString('base64') === s : s is canonical base64
\* (alphabet only, length a multiple of 4, padding at the end, unused bits zero)
B64Canonical(s) ==
    LET pad == B64Pad(s)
        n == Len(s) - pad
    IN  /\ Len(s) % 4 = 0
        /\ \A i \in 1..n : B64Index(s[i]) >= 0
        /\ pad = 1 => B64Index(s[n]) % 4 = 0
        /\ pad = 2 => B64Index(s[n]) % 16 = 0

\* isBase64(str): decode, re-encode and compare with the trimmed input
isBase64(str) == B64Canonical(TrimCodes(str))

\* Buffer.from(s, 'base64') for canonical s
RECURSIVE B64Decode(_)
B64Decode(s) ==
    IF Len(s) < 4 THEN << >>
    ELSE LET a == B64Index(s[1])
             b == B64Index(s[2])
             c == IF s[3] = 61 THEN 0 ELSE B64Index(s[3])
             d == IF s[4] = 61 THEN 0 ELSE B64Index(s[4])
             b1 == a * 4 + b \div 16
             b2 == (b % 16) * 16 + c \div 4
             b3 == (c % 4) * 64 + d
         IN  IF s[3] = 61 THEN << b1 >>
             ELSE IF s[4] = 61 THEN << b1, b2 >>
             ELSE << b1, b2, b3 >> \o B64Decode(Slice(s, 4, 0))

\* Buffer.prototype.toString() (utf8): a 7-bit byte is its own character; a
\* byte that starts no valid sequence becomes U+FFFD
Utf8Of(bytes) == [i \in 1..Len(bytes) |-> IF bytes[i] < 128 THEN bytes[i] ELSE 65533]

JsonFail == [ok |-> FALSE]

\* JSON.parse on the texts built of  [ ] { } ,  : an empty object, or an array
\* of such values; the first character that fits no value fails the parse
RECURSIVE JsonValue(_)
RECURSIVE JsonItems(_, _)
JsonValue(s) ==
    IF StartsWith(s, << 123, 125 >>)
    THEN [ok |-> TRUE, value |-> ObjV(<< >>), rest |-> Slice(s, 2, 0)]
    ELSE IF StartsWith(s, << 91, 93 >>)
    THEN [ok |-> TRUE, value |-> ArrV(<< >>), rest |-> Slice(s, 2, 0)]
    ELSE IF StartsWith(s, << 91 >>)
    THEN JsonItems(Tail(s), << >>)
    ELSE JsonFail

JsonItems(s, acc) ==
    LET v == JsonValue(s)
    IN  IF ~v.ok THEN JsonFail
        ELSE IF StartsWith(v.rest, << 44 >>)
        THEN JsonItems(Tail(v.rest), Append(acc, v.value))
        ELSE IF StartsWith(v.rest, << 93 >>)
        THEN [ok |-> TRUE, value |-> ArrV(Append(acc, v.value)), rest |-> Tail(v.rest)]
        ELSE JsonFail

\* safeJsonParse(value)
safeJsonParse(value) ==
    IF ~options.parseJson THEN StrV(value)
    ELSE LET v == JsonValue(value)
         IN  IF v.ok /\ v.rest = << >> THEN v.value ELSE StrV(value)

(***************************************************************************)
(* The readers of AbiTypeConverter.                                        *)
(***************************************************************************)

\* isPrimitiveType(type)
isPrimitiveType(type) == type \in AbiBaseType

\* extractGenericType(type, wrapper)
extractGenericType(type, wrapper) == Trim(Slice(type, Len(wrapper), 1))

\* readAddressType(data): Address.fromHex rejects a key that is not 32 bytes
readAddressType(data) ==
    LET key == Subarray(data, 0, 32)
    IN  IF Len(key) # 32 THEN Err("ErrAddressCannotCreate") ELSE Ok(AddrV(key), 32)

\* readTokenIdentifier(data, originalIsPrimitive)
readTokenIdentifier(data, originalIsPrimitive) ==
    IF originalIsPrimitive THEN Ok(StrV(AsciiOf(data)), Len(data))
    ELSE IF Len(data) < 4 THEN Err("ERR_OUT_OF_RANGE")
    ELSE LET length == U32Of(data)
         IN  Ok(StrV(AsciiOf(Subarray(data, 4, length + 4))), length + 4)

\* readPrimitiveType, case AbiBaseType.Bytes
readBytes(data, originalIsPrimitive) ==
    IF originalIsPrimitive THEN Ok(StrV(AsciiOf(data)), Len(data))
    ELSE IF Len(data) < 4 THEN Err("ERR_OUT_OF_RANGE")
    ELSE LET objLen == U32Of(data)
             value == AsciiOf(Subarray(data, 4, objLen + 4))
             decoded == Utf8Of(B64Decode(TrimCodes(value)))
         IN  IF isBase64(value)
             THEN IF StartsWith(decoded, << 123 >>) \/ StartsWith(decoded, << 91 >>)
                  THEN Ok(safeJsonParse(decoded), objLen + 4)
                  ELSE Ok(StrV(decoded), objLen + 4)
             ELSE Ok(StrV(value), objLen + 4)

\* a variant of readBigUint that renders the nested value in decimal as well
readBigUint_decimal(data, originalIsPrimitive) ==
    IF originalIsPrimitive THEN Ok(StrV(DecimalOf(data)), Len(data))
    ELSE IF Len(data) < 4 THEN Err("ERR_OUT_OF_RANGE")
    ELSE LET len == U32Of(data)
         IN  Ok(StrV(DecimalOf(Subarray(data, 4, len + 4))), len + 4)

\* readPrimitiveType, case AbiBaseType.BigUint
readBigUint(data, originalIsPrimitive) ==
    IF originalIsPrimitive THEN Ok(StrV(DecimalOf(data)), Len(data))
    ELSE IF Len(data) < 4 THEN Err("ERR_OUT_OF_RANGE")
    ELSE LET len == U32Of(data)
         IN  Ok(StrV(HexOf(Subarray(data, 4, len + 4))), len + 4)

\* data.readUInt8(0) / readUInt16BE(0) / readUInt32BE(0): a number
readUIntBE(data, width) ==
    IF Len(data) < width THEN Err("ERR_OUT_OF_RANGE")
    ELSE Ok(NumV(DecimalOf(SubSeq(data, 1, width))), width)

\* data.readBigUInt64BE(0).toString(): a decimal string
readBigUInt64BE(data) ==
    IF Len(data) < 8 THEN Err("ERR_OUT_OF_RANGE")
    ELSE Ok(StrV(DecimalOf(SubSeq(data, 1, 8))), 8)

\* readPrimitiveType(data, objectType, originalIsPrimitive), data not empty
readPrimitiveType(data, objectType, originalIsPrimitive) ==
    IF objectType = Bytes THEN readBytes(data, originalIsPrimitive)
    ELSE IF objectType = Address THEN readAddressType(data)
    ELSE IF objectType \in { U8, I8, Usize, Isize } THEN readUIntBE(data, 1)
    ELSE IF objectType \in { U16, I16 } THEN readUIntBE(data, 2)
    ELSE IF objectType \in { U32, I32 } THEN readUIntBE(data, 4)
    ELSE IF objectType \in { U64, I64 } THEN readBigUInt64BE(data)
    ELSE IF objectType = Bool THEN Ok(BoolV(data[1] # 0), 1)
    ELSE IF objectType \in { TokenIdentifier, EgldOrEsdtTokenIdentifier }
    THEN readTokenIdentifier(data, originalIsPrimitive)
    ELSE IF objectType = BigUint THEN readBigUint(data, originalIsPrimitive)
    ELSE Err("Unsupported primitive type")

\* the registry lookup  this.abi.types[objectType]  is truthy
HasCustomType(objectType) == objectType \in DOMAIN abi.types

DigitChars == << "0", "1", "2", "3", "4", "5", "6", "7", "8", "9" >>

IsDigit(c) == \E i \in 1..10 : DigitChars[i] = c

DigitValue(c) == (CHOOSE i \in 1..10 : DigitChars[i] = c) - 1

\* parseInt(lengthStr, 10) of a string of digits
RECURSIVE ParseInt(_, _)
ParseInt(s, acc) ==
    IF s = << >> THEN acc ELSE ParseInt(Tail(s), acc * 10 + DigitValue(Head(s)))

\* index of the last digit of the run of digits of s that starts at q; q - 1 when none
RECURSIVE DigitRunEnd(_, _)
DigitRunEnd(s, q) ==
    IF q <= Len(s) /\ IsDigit(s[q]) THEN DigitRunEnd(s, q + 1) ELSE q - 1

\* type.match(/array(\d+)<(.+)>/) tried with "array" at position p
ArrayMatchAt(type, p) ==
    LET q == p + 5
        e == DigitRunEnd(type, q)
        last == LastIndexOf(type, ">", Len(type))
    IN  IF /\ StartsWith(Slice(type, p - 1, 0), << "a", "r", "r", "a", "y" >>)
           /\ e >= q
           /\ e + 1 <= Len(type)
           /\ type[e + 1] = "<"
           /\ last >= e + 3
        THEN [ok |-> TRUE,
              lengthStr |-> SubSeq(type, q, e),
              subtype |-> SubSeq(type, e + 2, last - 1)]
        ELSE [ok |-> FALSE]

\* type.match(/array(\d+)<(.+)>/): the leftmost match
ArrayMatch(type) ==
    LET hits == { p \in 1..Len(type) : ArrayMatchAt(type, p).ok }
    IN  IF hits = {} THEN [ok |-> FALSE]
        ELSE ArrayMatchAt(type, CHOOSE p \in hits : \A r \in hits : p <= r)

RECURSIVE readHex(_, _, _)
RECURSIVE readListLoop(_, _, _, _)
RECURSIVE readMultiLoop(_, _, _, _, _)
RECURSIVE readFieldsLoop(_, _, _, _, _)
RECURSIVE readArrayLoop(_, _, _, _, _)

\* readListType(data, subtype): while (offset < data.length) ...
\* An item that consumes nothing leaves the offset where it was: the loop
\* repeats the same read for ever.
readListLoop(data, subtype, offset, acc) ==
    IF offset >= Len(data) THEN Ok(ArrV(acc), offset)
    ELSE LET r == readHex(Subarray(data, offset, Len(data)), subtype, FALSE)
         IN  IF r.st # "ok" THEN r
             ELSE IF r.len = 0 THEN Hang
             ELSE readListLoop(data, subtype, offset + r.len, Append(acc, r.value))

\* a variant of readListType that reads a single item (if for while)
readListType_once(data, subtype) ==
    LET r == readHex(data, subtype, FALSE)
    IN  IF r.st # "ok" THEN r ELSE Ok(ArrV(<< r.value >>), r.len)

readListType(data, subtype) == readListLoop(data, subtype, 0, << >>)

\* readMultiType(data, subtypes): for (const subtype of subtypes) ...
readMultiLoop(data, subtypes, i, offset, acc) ==
    IF i > Len(subtypes) THEN Ok(ArrV(acc), offset)
    ELSE LET r == readHex(Subarray(data, offset, Len(data)), Trim(subtypes[i]), FALSE)
         IN  IF r.st # "ok" THEN r
             ELSE readMultiLoop(data, subtypes, i + 1, offset + r.len, Append(acc, r.value))

readMultiType(data, subtypes) == readMultiLoop(data, subtypes, 1, 0, << >>)

\* readTupleType(data, types)
readTupleType(data, types) == readMultiType(data, types)

\* the loop over the fields of a struct or of an enum variant:
\* result[field.name] = value; offset += length
readFieldsLoop(data, fields, i, offset, acc) ==
    IF i > Len(fields) THEN Ok(ObjV(acc), offset)
    ELSE LET r == readHex(Subarray(data, offset, Len(data)), fields[i].type, FALSE)
         IN  IF r.st # "ok" THEN r
             ELSE readFieldsLoop(data, fields, i + 1, offset + r.len,
                                 ObjSet(acc, fields[i].name, r.value))

\* a variant of readStructType that starts after a discriminant byte, as the enum reader does
readStructType_skip(data, structType) ==
    readFieldsLoop(data, structType.fields, 1, 1, << >>)

\* readStructType(data, structType)
readStructType(data, structType) == readFieldsLoop(data, structType.fields, 1, 0, << >>)

\* a variant of readEnumType that reads the fields from the start of the buffer
readEnumType_fromStart(data, enumType) ==
    LET discriminant == data[1]
    IN  IF discriminant >= Len(enumType.variants) THEN Err("TypeError")
        ELSE LET variant == enumType.variants[discriminant + 1]
             IN  IF ~variant.hasFields THEN Ok(NameV(variant.name), 1)
                 ELSE LET r == readFieldsLoop(data, variant.fields, 1, 0, << >>)
                      IN  IF r.st # "ok" THEN r
                          ELSE Ok(ObjV(<< << variant.name, r.value >> >>), r.len)

\* readEnumType(data, enumType), data not empty; variants[discriminant] is
\* undefined past the end of the list, and reading its fields a TypeError
readEnumType(data, enumType) ==
    LET discriminant == data[1]
    IN  IF discriminant >= Len(enumType.variants) THEN Err("TypeError")
        ELSE LET variant == enumType.variants[discriminant + 1]
             IN  IF ~variant.hasFields THEN Ok(NameV(variant.name), 1)
                 ELSE LET r == readFieldsLoop(data, variant.fields, 1, 1, << >>)
                      IN  IF r.st # "ok" THEN r
                          ELSE Ok(ObjV(<< << variant.name, r.value >> >>), r.len)

\* a variant of readOptionType that does not count the flag byte
readOptionType_noFlag(data, subtype) ==
    IF Len(data) = 0 THEN Ok(NullV, 0)
    ELSE IF data[1] = 0 THEN Ok(NullV, 1)
    ELSE readHex(Subarray(data, 1, Len(data)), subtype, FALSE)

\* readOptionType(data, subtype)
readOptionType(data, subtype) ==
    IF Len(data) = 0 THEN Ok(NullV, 0)
    ELSE IF data[1] = 0 THEN Ok(NullV, 1)
    ELSE LET r == readHex(Subarray(data, 1, Len(data)), subtype, FALSE)
         IN  IF r.st # "ok" THEN r ELSE Ok(r.value, r.len + 1)

\* readArrayType: for (let i = 0; i < arrLength; i++) ...
readArrayLoop(data, subtype, n, offset, acc) ==
    IF n = 0 THEN Ok(ArrV(acc), offset)
    ELSE LET r == readHex(Subarray(data, offset, Len(data)), subtype, FALSE)
         IN  IF r.st # "ok" THEN r
             ELSE readArrayLoop(data, subtype, n - 1, offset + r.len, Append(acc, r.value))

\* readArrayType(data, type)
readArrayType(data, type) ==
    IF ~StartsWith(type, << "a", "r", "r", "a", "y" >>) \/ ~Includes(type, << "<" >>)
    THEN Err("Invalid array type format")
    ELSE LET m == ArrayMatch(type)
         IN  IF ~m.ok THEN Err("Invalid array type format")
             ELSE readArrayLoop(data, m.subtype, ParseInt(m.lengthStr, 0), 0, << >>)

\* the typeHandlers entry number i of readHex applied to (data, subtype)
ApplyHandler(i, data, subtype, originalTypeIsPrimitive) ==
    CASE i = 1 -> readArrayType(data, subtype)
      [] i = 2 -> readListType(data, subtype)
      [] i = 3 -> readListType(data, subtype)
      [] i = 4 -> readHex(data, subtype, originalTypeIsPrimitive)
      [] i = 5 -> readOptionType(data, subtype)
      [] i = 6 -> readMultiType(data, Split(subtype, ","))
      [] i = 7 -> readMultiType(data, Split(subtype, ","))

\* the custom types of the ABI: enum, struct, or a bare array of type names
readCustomType(data, objectType) ==
    LET typeData == abi.types[objectType]
    IN  IF typeData.kind = "enum" THEN readEnumType(data, typeData)
        ELSE IF typeData.kind = "struct" THEN readStructType(data, typeData)
        ELSE IF typeData.kind = "array" THEN readTupleType(data, typeData.items)
        ELSE Err("Unsupported type provided")

\* the try block of readHex
readHexBody(data, objectType, originalTypeIsPrimitive) ==
    IF Len(data) = 0
    THEN IF originalTypeIsPrimitive /\ objectType \in NUMERIC_TYPES
         THEN Ok(IF Includes(objectType, << "B", "i", "g" >>)
                 THEN StrV(<< 48 >>) ELSE NumV(<< 48 >>), 0)
         ELSE Ok(NullV, 0)
    ELSE IF StartsWith(objectType, PatOptional)
    THEN readHex(data, extractGenericType(objectType, PatOptional), FALSE)
    ELSE IF isPrimitiveType(objectType)
    THEN readPrimitiveType(data, objectType, originalTypeIsPrimitive)
    ELSE IF objectType = Address
    THEN readAddressType(data)
    ELSE IF StartsWith(objectType, PatList)
    THEN readListType(data, extractGenericType(objectType, PatList))
    ELSE LET hits == { i \in 1..Len(HandlerPrefixes) :
                          StartsWith(objectType, HandlerPrefixes[i] \o << "<" >>) }
         IN  IF hits # {}
             THEN LET i == CHOOSE j \in hits : \A h \in hits : j <= h
                  IN  ApplyHandler(i, data,
                                   Trim(Slice(objectType, Len(HandlerPrefixes[i]) + 1, 1)),
                                   originalTypeIsPrimitive)
             ELSE IF HasCustomType(objectType)
             THEN readCustomType(data, objectType)
             ELSE Err("Unsupported type provided")

\* readHex(data, objectType, originalTypeIsPrimitive = false)
readHex(data, objectType, originalTypeIsPrimitive) ==
    Wrap(objectType, readHexBody(data, objectType, originalTypeIsPrimitive))

\* a variant of chunks that drops an incomplete last chunk (Math.floor)
chunks_floor(items, size) ==
    [i \in 1..(Len(items) \div size) |-> SubSeq(items, (i - 1) * size + 1, i * size)]

\* chunks(items, size): Math.ceil(items.length / size) slices of at most size items
chunks(items, size) ==
    [i \in 1..((Len(items) + size - 1) \div size) |->
        SubSeq(items, (i - 1) * size + 1,
               IF i * size > Len(items) THEN Len(items) ELSE i * size)]

\* what parseHexResponse returns (a value, not a pair)
Ret(value) == [st |-> "ok", value |-> value]

\* chunk.map((item, i) => readHex(item, objectTypes[i].trim(),
\*                                isPrimitiveType(objectTypes[i]))[0])
RECURSIVE mapChunk(_, _, _, _)
mapChunk(chunk, objectTypes, i, acc) ==
    IF i > Len(chunk) THEN Ret(ArrV(acc))
    ELSE LET r == readHex(chunk[i], Trim(objectTypes[i]), isPrimitiveType(objectTypes[i]))
         IN  IF r.st # "ok" THEN r
             ELSE mapChunk(chunk, objectTypes, i + 1, Append(acc, r.value))

\* reorganized.map((chunk) => ...)
RECURSIVE mapChunks(_, _, _, _)
mapChunks(reorganized, objectTypes, c, acc) ==
    IF c > Len(reorganized) THEN Ret(ArrV(acc))
    ELSE LET r == mapChunk(reorganized[c], objectTypes, 1, << >>)
         IN  IF r.st # "ok" THEN r
             ELSE mapChunks(reorganized, objectTypes, c + 1, Append(acc, r.value))

\* a variant of the loop that leaves out the responses that fail to decode
RECURSIVE mapResponses_skipping(_, _, _, _, _)
mapResponses_skipping(responses, type, originalIsPrimitive, i, acc) ==
    IF i > Len(responses) THEN Ret(ArrV(acc))
    ELSE LET r == readHex(responses[i], type, originalIsPrimitive)
         IN  mapResponses_skipping(responses, type, originalIsPrimitive, i + 1,
                                   IF r.st = "ok" THEN Append(acc, r.value) ELSE acc)

\* a variant of unwrapSingle that returns the array also for one response
unwrapSingle_never(acc) == ArrV(acc)

\* result.length === 1 ? result[0] : result
unwrapSingle(acc) == IF Len(acc) = 1 THEN acc[1] ELSE ArrV(acc)

\* for (const hexResponse of hexResponses) result.push(readHex(...)[0])
RECURSIVE mapResponses(_, _, _, _, _)
mapResponses(responses, type, originalIsPrimitive, i, acc) ==
    IF i > Len(responses) THEN Ret(unwrapSingle(acc))
    ELSE LET r == readHex(responses[i], type, originalIsPrimitive)
         IN  IF r.st # "ok" THEN r
             ELSE mapResponses(responses, type, originalIsPrimitive, i + 1,
                               Append(acc, r.value))

\* responseType.replace(/^variadic<(.+)>$/, '$1')
StripVariadic(type) ==
    IF StartsWith(type, PatVariadic) /\ EndsWith(type, << ">" >>)
       /\ Len(type) >= Len(PatVariadic) + 2
    THEN Slice(type, Len(PatVariadic), 1)
    ELSE type

\* originalIsPrimitive of parseHexResponse
TopLevelFlag(type) == isPrimitiveType(StripVariadic(type))

\* the test that selects the variadic<multi<...>> branch of parseHexResponse
IsVariadicMulti(type) ==
    StartsWith(type, PatVariadic \o PatMulti) /\ Includes(type, << "," >>)

\* responseType.replace('variadic<multi<', '').slice(0, -2).split(',')
VariadicMultiTypes(type) == Split(Slice(type, Len(PatVariadic) + Len(PatMulti), 2), ",")

\* parseHexResponse(hexResponses, responseType)
parseHexResponse(responses, type) ==
    IF IsVariadicMulti(type)
    THEN LET objectTypes == VariadicMultiTypes(type)
         IN  mapChunks(chunks(responses, Len(objectTypes)), objectTypes, 1, << >>)
    ELSE mapResponses(responses, type, TopLevelFlag(type), 1, << >>)

(***************************************************************************)
(* The type-name converter of AbiWarpGenerator. A descriptor and an error  *)
(* message are JavaScript strings: sequences of one-char strings.          *)
(***************************************************************************)

\* the abi field of a generator constructed without an ABI
NoAbi == [undefined |-> TRUE]

\* throw new <kind>(message)
Thrown(kind, message) == [st |-> "err", kind |-> kind, message |-> message]

\* Array.prototype.join
RECURSIVE Join(_, _)
Join(parts, sep) ==
    IF parts = << >> THEN << >>
    ELSE IF Len(parts) = 1 THEN parts[1]
    ELSE parts[1] \o sep \o Join(Tail(parts), sep)
\* the descriptor keywords of WARP_CONSTANTS.TYPE_MAPPINGS
D_address == << "a", "d", "d", "r", "e", "s", "s" >>
D_biguint == << "b", "i", "g", "u", "i", "n", "t" >>
D_uint8 == << "u", "i", "n", "t", "8" >>
D_int8 == << "i", "n", "t", "8" >>
D_uint16 == << "u", "i", "n", "t", "1", "6" >>
D_uint32 == << "u", "i", "n", "t", "3", "2" >>
D_uint64 == << "u", "i", "n", "t", "6", "4" >>
D_bool == << "b", "o", "o", "l" >>
D_string == << "s", "t", "r", "i", "n", "g" >>
D_token == << "t", "o", "k", "e", "n" >>

\* a variant of the table in which bytes keeps its ABI name
TYPE_MAPPINGS_bytes ==
    (Address :> D_address) @@ (BigUint :> D_biguint) @@ (U8 :> D_uint8)
    @@ (I8 :> D_int8) @@ (U16 :> D_uint16) @@ (U32 :> D_uint32)
    @@ (U64 :> D_uint64) @@ (Bool :> D_bool) @@ (Bytes :> Bytes)
    @@ (TokenIdentifier :> D_token) @@ (EgldOrEsdtTokenIdentifier :> D_token)

\* WARP_CONSTANTS.TYPE_MAPPINGS
TYPE_MAPPINGS ==
    (Address :> D_address) @@ (BigUint :> D_biguint) @@ (U8 :> D_uint8)
    @@ (I8 :> D_int8) @@ (U16 :> D_uint16) @@ (U32 :> D_uint32)
    @@ (U64 :> D_uint64) @@ (Bool :> D_bool) @@ (Bytes :> D_string)
    @@ (TokenIdentifier :> D_token) @@ (EgldOrEsdtTokenIdentifier :> D_token)

\* Object.entries(nestedTypesMapping): pattern and replacement, in insertion order
nestedTypesMapping ==
    << << << "O", "p", "t", "i", "o", "n", "<" >>,
          << "o", "p", "t", "i", "o", "n", ":" >> >>,
       << << "o", "p", "t", "i", "o", "n", "a", "l", "<" >>,
          << "o", "p", "t", "i", "o", "n", "a", "l", ":" >> >>,
       << << "L", "i", "s", "t", "<" >>, << "l", "i", "s", "t", ":" >> >>,
       << << "v", "a", "r", "i", "a", "d", "i", "c", "<" >>,
          << "v", "a", "r", "i", "a", "d", "i", "c", ":" >> >> >>

\* the messages of the errors the converter throws
MsgTypeRequired ==
    << "A", "B", "I", " ", "t", "y", "p", "e", " ", "i", "s", " ", "r", "e",
       "q", "u", "i", "r", "e", "d" >>
MsgConversionFailed ==
    << "T", "y", "p", "e", " ", "c", "o", "n", "v", "e", "r", "s", "i", "o",
       "n", " ", "f", "a", "i", "l", "e", "d", ":", " " >>
MsgUnmatched ==
    << "I", "n", "v", "a", "l", "i", "d", " ", "f", "o", "r", "m", "a", "t",
       ":", " ", "u", "n", "m", "a", "t", "c", "h", "e", "d", " ", "b", "r",
       "a", "c", "k", "e", "t", "s", " ", "i", "n", " " >>
MsgInvalidMulti ==
    << "I", "n", "v", "a", "l", "i", "d", " ", "m", "u", "l", "t", "i", " ",
       "t", "y", "p", "e", " ", "f", "o", "r", "m", "a", "t", ":", " " >>
MsgUnsupportedCustom ==
    << "U", "n", "s", "u", "p", "p", "o", "r", "t", "e", "d", " ", "c", "u",
       "s", "t", "o", "m", " ", "t", "y", "p", "e", ":", " " >>

\* the TypeError of  this.abi.types  on a generator without an ABI
MsgUndefinedTypes ==
    << "C", "a", "n", "n", "o", "t", " ", "r", "e", "a", "d", " ", "p", "r",
       "o", "p", "e", "r", "t", "i", "e", "s", " ", "o", "f", " ", "u", "n",
       "d", "e", "f", "i", "n", "e", "d", " ", "(", "r", "e", "a", "d", "i",
       "n", "g", " ", "'", "t", "y", "p", "e", "s", "'", ")" >>

\* the characters of the field names of the sample ABI
Chars ==
    ("x" :> << "x" >>) @@ ("y" :> << "y" >>) @@ ("a" :> << "a" >>)
    @@ ("b" :> << "b" >>) @@ ("p" :> << "p" >>) @@ ("l" :> << "l" >>)
    @@ ("k" :> << "k" >>) @@ ("id" :> << "i", "d" >>)
    @@ ("amount" :> << "a", "m", "o", "u", "n", "t" >>)

\* customType.type rendered in a template string (a bare array has no type key)
KindChars(kind) ==
    IF kind = "array" THEN << "u", "n", "d", "e", "f", "i", "n", "e", "d" >>
    ELSE IF kind = "explicit-enum"
    THEN << "e", "x", "p", "l", "i", "c", "i", "t", "-", "e", "n", "u", "m" >>
    ELSE << >>

\* a variant of the scan that stops at the first '>' whatever the depth
RECURSIVE closingScan_first(_, _, _)
closingScan_first(abiType, bracketCount, closingIndex) ==
    IF bracketCount > 0 /\ closingIndex < Len(abiType)
    THEN closingScan_first(abiType,
                           IF abiType[closingIndex + 1] = ">" THEN 0 ELSE bracketCount,
                           closingIndex + 1)
    ELSE [bracketCount |-> bracketCount, closingIndex |-> closingIndex]

\* the while loop of convertType: closingIndex is a 0-based index into abiType
RECURSIVE closingScan(_, _, _)
closingScan(abiType, bracketCount, closingIndex) ==
    IF bracketCount > 0 /\ closingIndex < Len(abiType)
    THEN LET ch == abiType[closingIndex + 1]
         IN  closingScan(abiType,
                         IF ch = "<" THEN bracketCount + 1
                         ELSE IF ch = ">" THEN bracketCount - 1
                         ELSE bracketCount,
                         closingIndex + 1)
    ELSE [bracketCount |-> bracketCount, closingIndex |-> closingIndex]

\* multiType.match(/multi<(.+)>/)[1] for a name that starts with multi<: the
\* greedy group runs to the last '>' and must hold one character; "" is no match
multiMatch(multiType) ==
    LET q == LastIndexOf(multiType, ">", Len(multiType))
    IN  IF q >= Len(PatMulti) + 2 THEN SubSeq(multiType, Len(PatMulti) + 1, q - 1)
        ELSE << >>

\* a variant of the split that cuts at every comma whatever the depth
RECURSIVE splitTypes_naive(_, _, _, _, _)
splitTypes_naive(innerContent, i, currentType, bracketCount, types) ==
    IF i > Len(innerContent)
    THEN IF Trim(currentType) # << >> THEN Append(types, Trim(currentType)) ELSE types
    ELSE LET cut == innerContent[i] = ","
         IN  splitTypes_naive(innerContent, i + 1,
                              IF cut THEN << >> ELSE Append(currentType, innerContent[i]),
                              bracketCount,
                              IF cut THEN Append(types, Trim(currentType)) ELSE types)

\* the for loop of convertMultiType and the push of the last type
RECURSIVE splitTypes(_, _, _, _, _)
splitTypes(innerContent, i, currentType, bracketCount, types) ==
    IF i > Len(innerContent)
    THEN IF Trim(currentType) # << >> THEN Append(types, Trim(currentType)) ELSE types
    ELSE LET char == innerContent[i]
             count == IF char = "<" THEN bracketCount + 1
                      ELSE IF char = ">" THEN bracketCount - 1
                      ELSE bracketCount
             cut == char = "," /\ count = 0
         IN  splitTypes(innerContent, i + 1,
                        IF cut THEN << >> ELSE Append(currentType, char), count,
                        IF cut THEN Append(types, Trim(currentType)) ELSE types)

\* a throw inside an expression ends the enclosing function with that throw;
\* otherwise the function goes on with the value
Try(r, Continue(_)) == IF r.st = "err" THEN r ELSE Continue(r.value)

\* `composite(${parts.join('|')})`
Composite(parts) ==
    << "c", "o", "m", "p", "o", "s", "i", "t", "e", "(" >>
    \o Join(parts, << "|" >>) \o << ")" >>

\* the catch block of convertType
Rethrow(r) ==
    IF r.st = "err" THEN Thrown("InvalidTypeError", MsgConversionFailed \o r.message)
    ELSE r

RECURSIVE convertType(_), convertTypeBody(_), convertNested(_, _, _),
          convertInner(_), convertMultiType(_), convertCustomType(_),
          convertEach(_, _, _), convertFields(_, _, _),
          convertFields_reversed(_, _, _)

\* types.map((type) => this.convertType(type)): the first throw ends the map
convertEach(types, i, acc) ==
    IF i > Len(types) THEN Ret(acc)
    ELSE Try(convertType(types[i]),
             LAMBDA v : convertEach(types, i + 1, Append(acc, v)))

\* a variant of the field map that emits the fields last to first
convertFields_reversed(fields, i, acc) ==
    IF i > Len(fields) THEN Ret(acc)
    ELSE Try(convertType(fields[i].type),
             LAMBDA v : convertFields_reversed(
                            fields, i + 1,
                            << Chars[fields[i].name] \o << ":" >> \o v >> \o acc))

\* customType.fields.map((field) => `${field.name}:${convertType(field.type)}`)
convertFields(fields, i, acc) ==
    IF i > Len(fields) THEN Ret(acc)
    ELSE Try(convertType(fields[i].type),
             LAMBDA v : convertFields(
                            fields, i + 1,
                            Append(acc, Chars[fields[i].name] \o << ":" >> \o v)))

\* private convertCustomType(typeName), called for registry keys only
convertCustomType(typeName) ==
    LET customType == abi.types[typeName]
    IN  IF customType.kind = "enum" THEN Ret(TYPE_MAPPINGS[U64])
        ELSE IF customType.kind = "struct"
        THEN Try(convertFields(customType.fields, 1, << >>),
                 LAMBDA fieldTypes : Ret(Composite(fieldTypes)))
        ELSE Thrown("Error", MsgUnsupportedCustom \o KindChars(customType.kind))

\* private convertMultiType(multiType)
convertMultiType(multiType) ==
    IF ~StartsWith(multiType, PatMulti) \/ multiMatch(multiType) = << >>
    THEN Thrown("Error", MsgInvalidMulti \o multiType)
    ELSE Try(convertEach(splitTypes(multiMatch(multiType), 1, << >>, 0, << >>),
                         1, << >>),
             LAMBDA convertedTypes : Ret(Composite(convertedTypes)))

\* the inner type of a wrapper: a multi goes to convertMultiType
convertInner(innerType) ==
    IF StartsWith(innerType, PatMulti) THEN convertMultiType(innerType)
    ELSE convertType(innerType)

\* what follows the bracket scan in the for loop of convertType
AfterScan(abiType, pattern, replacement, scan) ==
    IF scan.bracketCount # 0 THEN Thrown("Error", MsgUnmatched \o abiType)
    ELSE Try(convertInner(Trim(SubSeq(abiType, Len(pattern) + 1,
                                      scan.closingIndex - 1))),
             LAMBDA convertedInner :
                 Ret(replacement \o convertedInner
                     \o Trim(Slice(abiType, scan.closingIndex, 0))))

\* the body of the for loop of convertType for the pattern the name starts with
convertNested(abiType, pattern, replacement) ==
    AfterScan(abiType, pattern, replacement, closingScan(abiType, 1, Len(pattern)))

\* the try block of convertType
convertTypeBody(abiType) ==
    IF abi = NoAbi THEN Thrown("TypeError", MsgUndefinedTypes)
    ELSE IF abiType \in DOMAIN abi.types THEN convertCustomType(abiType)
    ELSE IF StartsWith(abiType, PatMulti) THEN convertMultiType(abiType)
    ELSE LET hits == { i \in 1..Len(nestedTypesMapping) :
                          StartsWith(abiType, nestedTypesMapping[i][1]) }
         IN  IF hits # {}
             THEN LET i == CHOOSE j \in hits : \A h \in hits : j <= h
                  IN  convertNested(abiType, nestedTypesMapping[i][1],
                                    nestedTypesMapping[i][2])
             ELSE Ret(IF abiType \in DOMAIN TYPE_MAPPINGS
                      THEN TYPE_MAPPINGS[abiType] ELSE abiType)

\* public convertType(abiType): the guard, and the catch that rethrows
convertType(abiType) ==
    IF abiType = << >> THEN Thrown("InvalidTypeError", MsgTypeRequired)
    ELSE Rethrow(convertTypeBody(abiType))

(***************************************************************************)
(* The endpoint-to-action transformer of AbiWarpGenerator. An input        *)
(* descriptor keeps the fields that are data (name, type, position,        *)
(* source, required, min, modifier, pattern, options); of the prose fields *)
(* (description, bot) only the throw of createBotDescription is kept.      *)
(***************************************************************************)

\* WARP_CONSTANTS.DEFAULT_GAS_LIMIT
DEFAULT_GAS_LIMIT == 60000000

\* Number.prototype.toString of an integer n >= 0 inside a template string
RECURSIVE IntChars(_)
IntChars(n) ==
    IF n < 10 THEN << DigitChars[n + 1] >>
    ELSE IntChars(n \div 10) \o << DigitChars[(n % 10) + 1] >>

S_composite == << "c", "o", "m", "p", "o", "s", "i", "t", "e", "(" >>
S_boolean == << "b", "o", "o", "l", "e", "a", "n" >>
S_value == << "v", "a", "l", "u", "e" >>
S_transfer == << "t", "r", "a", "n", "s", "f", "e", "r" >>
S_arg == << "a", "r", "g", ":" >>

MsgInvalidInput ==
    << "I", "n", "v", "a", "l", "i", "d", " ", "i", "n", "p", "u", "t",
           " ", "a", "t", " ", "i", "n", "d", "e", "x", " " >>
MsgEndpointName ==
    << "E", "n", "d", "p", "o", "i", "n", "t", " ", "n", "a", "m", "e",
           " ", "i", "s", " ", "r", "e", "q", "u", "i", "r", "e", "d" >>
\* the TypeError of  undefined.replace(...)  in getFriendlyTypeName
MsgUndefinedReplace ==
    << "C", "a", "n", "n", "o", "t", " ", "r", "e", "a", "d", " ", "p",
           "r", "o", "p", "e", "r", "t", "i", "e", "s", " ", "o", "f", " ",
           "u", "n", "d", "e", "f", "i", "n", "e", "d", " ", "(", "r", "e",
           "a", "d", "i", "n", "g", " ", "'", "r", "e", "p", "l", "a", "c",
           "e", "'", ")" >>

\* private extractBaseType(type): the last ':'-separated segment
extractBaseType(type) == LET typeSegments == Split(type, ":") IN typeSegments[Len(typeSegments)]

\* compositeType.match(/composite\((.+)\)/)[1] for a string that starts with
\* composite( : the greedy group runs to the last ')'; "" is no match
compositeMatch(compositeType) ==
    LET q == LastIndexOf(compositeType, ")", Len(compositeType))
    IN  IF q >= Len(S_composite) + 2
        THEN SubSeq(compositeType, Len(S_composite) + 1, q - 1)
        ELSE << >>

\* private describeStructuredComposite(compositeType): null, a text, or the
\* TypeError of getFriendlyTypeName(undefined) for a part without ':' met while
\* some part has one
describeStructuredComposite(compositeType) ==
    LET parts == Split(compositeMatch(compositeType), "|")
    IN  IF compositeMatch(compositeType) = << >> THEN "null"
        ELSE IF ~\E i \in DOMAIN parts : Includes(parts[i], << ":" >>) THEN "null"
        ELSE IF \E i \in DOMAIN parts : ~Includes(parts[i], << ":" >>) THEN "throw"
        ELSE "text"

\* the item type createBotDescription looks at: what follows list: or variadic:
botInner(convertedType) ==
    IF StartsWith(convertedType, nestedTypesMapping[3][2]) THEN Slice(convertedType, 5, 0)
    ELSE IF StartsWith(convertedType, nestedTypesMapping[4][2])
    THEN Slice(convertedType, 9, 0)
    ELSE convertedType

\* the branches of createBotDescription on the converted type: the text is
\* left out, "text" stands for every return
botDescription(convertedType) ==
    IF \/ StartsWith(convertedType, nestedTypesMapping[2][2])
       \/ StartsWith(convertedType, nestedTypesMapping[1][2])
    THEN "text"
    ELSE IF /\ StartsWith(botInner(convertedType), S_composite)
            /\ describeStructuredComposite(botInner(convertedType)) = "throw"
    THEN "throw"
    ELSE "text"

\* private createBotDescription(inputName, inputType); convertType(inputType)
\* has not thrown
createBotDescription(inputName, inputType) ==
    botDescription(convertType(inputType).value)

\* what a descriptor key holds when the key is not set
Absent == "absent"

\* a variant of getInputValidations whose switch tests Address before BigUint
getInputValidations_addressFirst(input) ==
    LET baseType == extractBaseType(input.type)
        none == [min |-> << >>, modifier |-> Absent, pattern |-> Absent,
                 type |-> << >>, required |-> Absent]
        hints ==
            IF Includes(baseType, Address)
            THEN [none EXCEPT !.pattern = "MULTIVERSX_ADDRESS"]
            ELSE IF Includes(baseType, BigUint)
            THEN [none EXCEPT !.min = << 0 >>,
                              !.modifier = IF baseType = BigUint THEN "scale:18"
                                           ELSE "undefined"]
            ELSE IF \/ Includes(baseType, TokenIdentifier)
                    \/ Includes(baseType, EgldOrEsdtTokenIdentifier)
            THEN [none EXCEPT !.pattern = "TOKEN_IDENTIFIER"]
            ELSE IF Includes(baseType, Bool)
            THEN [none EXCEPT !.type = S_boolean]
            ELSE none
    IN  IF \/ StartsWith(input.type, nestedTypesMapping[1][2])
           \/ StartsWith(input.type, nestedTypesMapping[2][2])
        THEN [hints EXCEPT !.required = "false"]
        ELSE hints

\* private getInputValidations(input): the keys it sets (type and required
\* replace the descriptor's own when set)
getInputValidations(input) ==
    LET baseType == extractBaseType(input.type)
        none == [min |-> << >>, modifier |-> Absent, pattern |-> Absent,
                 type |-> << >>, required |-> Absent]
        hints ==
            IF Includes(baseType, BigUint)
            THEN [none EXCEPT !.min = << 0 >>,
                              !.modifier = IF baseType = BigUint THEN "scale:18"
                                           ELSE "undefined"]
            ELSE IF Includes(baseType, Address)
            THEN [none EXCEPT !.pattern = "MULTIVERSX_ADDRESS"]
            ELSE IF \/ Includes(baseType, TokenIdentifier)
                    \/ Includes(baseType, EgldOrEsdtTokenIdentifier)
            THEN [none EXCEPT !.pattern = "TOKEN_IDENTIFIER"]
            ELSE IF Includes(baseType, Bool)
            THEN [none EXCEPT !.type = S_boolean]
            ELSE none
    IN  IF \/ StartsWith(input.type, nestedTypesMapping[1][2])
           \/ StartsWith(input.type, nestedTypesMapping[2][2])
        THEN [hints EXCEPT !.required = "false"]
        ELSE hints

\* a variant of the position tag that counts the inputs from 0
inputPosition_zeroBased(index) == S_arg \o IntChars(index)

\* const position = `arg:${index + 1}`
inputPosition(index) == S_arg \o IntChars(index + 1)

\* the object literal of transformInputs, the spread of the validations last
InputDescriptor(input, index, type, validations) ==
    [name |-> input.name,
     type |-> IF validations.type # << >> THEN validations.type ELSE type,
     position |-> inputPosition(index),
     source |-> "field",
     required |-> IF validations.required = "false" THEN FALSE
                  ELSE ~StartsWith(input.type, nestedTypesMapping[2][1]),
     min |-> validations.min,
     modifier |-> validations.modifier,
     pattern |-> validations.pattern,
     options |-> << >>]

\* private transformInputs(inputs): inputs.map(...), index 0-based; the first
\* throw ends the map
RECURSIVE transformInputs(_, _, _)
transformInputs(inputs, index, acc) ==
    IF index >= Len(inputs) THEN Ret(acc)
    ELSE IF inputs[index + 1].name = << >> \/ inputs[index + 1].type = << >>
    THEN Thrown("Error", MsgInvalidInput \o IntChars(index))
    ELSE Try(convertType(inputs[index + 1].type),
             LAMBDA type :
                 IF createBotDescription(inputs[index + 1].name,
                                         inputs[index + 1].type) = "throw"
                 THEN Thrown("TypeError", MsgUndefinedReplace)
                 ELSE transformInputs(
                          inputs, index + 1,
                          Append(acc, InputDescriptor(
                                          inputs[index + 1], index, type,
                                          getInputValidations(inputs[index + 1])))))

\* private createEgldInput(required)
createEgldInput(required) ==
    [name |-> << "e", "g", "l", "d", "A", "m", "o", "u", "n", "t" >>,
     type |-> D_biguint, position |-> S_value, source |-> "field",
     required |-> required, min |-> << 0 >>, modifier |-> "scale:18",
     pattern |-> Absent, options |-> << >>]

\* private createEsdtInput(acceptedTokens): << >> stands for no argument
createEsdtInput(acceptedTokens) ==
    [name |-> << "t", "o", "k", "e", "n", "A", "m", "o", "u", "n", "t" >>,
     type |-> << "e", "s", "d", "t" >>, position |-> S_transfer, source |-> "field",
     required |-> FALSE, min |-> << >>, modifier |-> Absent,
     pattern |-> Absent, options |-> acceptedTokens]

\* private createPaymentInputs(payableTokens): << >> stands for an absent or
\* empty list
createPaymentInputs(payableTokens) ==
    LET acceptedTokens == SelectSeq(payableTokens, LAMBDA token : token # "EGLD")
    IN  IF payableTokens = << >> THEN << >>
        ELSE IF \E i \in DOMAIN payableTokens : payableTokens[i] = "*"
        THEN << createEsdtInput(<< >>), createEgldInput(FALSE) >>
        ELSE (IF \E i \in DOMAIN payableTokens : payableTokens[i] = "EGLD"
              THEN << createEgldInput(TRUE) >> ELSE << >>)
             \o (IF Len(acceptedTokens) > 0
                 THEN << createEsdtInput(acceptedTokens) >> ELSE << >>)

\* public endpointToWarp(contractAddress, contractName, endpoint): the action
\* of the returned Warp (the titles and the icon URL are left out)
endpointToWarp(contractAddress, contractName, endpoint) ==
    LET actionType == IF endpoint.mutability = "readonly" THEN "query" ELSE "contract"
    IN  IF endpoint.name = << >> THEN Thrown("Error", MsgEndpointName)
        ELSE Try(transformInputs(endpoint.inputs, 0, << >>),
                 LAMBDA regularInputs :
                     Ret([type |-> actionType,
                          label |-> endpoint.name,
                          address |-> contractAddress,
                          func |-> endpoint.name,
                          inputs |-> createPaymentInputs(endpoint.payableInTokens)
                                     \o regularInputs,
                          gasLimit |-> IF actionType = "contract"
                                       THEN << DEFAULT_GAS_LIMIT >> ELSE << >>]))

\* public generateWarps(contractAddress): the Warps of the public endpoints

MsgInvalidAddress ==
    << "I", "n", "v", "a", "l", "i", "d", " ", "c", "o", "n", "t", "r", "a",
       "c", "t", " ", "a", "d", "d", "r", "e", "s", "s", " ", "f", "o", "r",
       "m", "a", "t" >>
MsgAbiRequired ==
    << "A", "B", "I", " ", "i", "s", " ", "r", "e", "q", "u", "i", "r", "e",
       "d" >>
PatErd1 == << "e", "r", "d", "1" >>

\* a variant of the filter that keeps every endpoint
publicEndpoints_all(endpoints) == endpoints

\* this.abi.endpoints.filter((endpoint) => !endpoint.onlyOwner)
publicEndpoints(endpoints) ==
    SelectSeq(endpoints, LAMBDA endpoint : endpoint.onlyOwner # "true")

\* publicEndpoints.map((endpoint) => this.endpointToWarp(...)): the first
\* throw ends the map
RECURSIVE mapEndpoints(_, _, _, _)
mapEndpoints(contractAddress, endpoints, i, acc) ==
    IF i > Len(endpoints) THEN Ret(acc)
    ELSE Try(endpointToWarp(contractAddress, abi.name, endpoints[i]),
             LAMBDA warp : mapEndpoints(contractAddress, endpoints, i + 1,
                                        Append(acc, warp)))

generateWarps(contractAddress) ==
    IF ~StartsWith(contractAddress, PatErd1)
    THEN Thrown("InvalidInputError", MsgInvalidAddress)
    ELSE IF abi = NoAbi THEN Thrown("InvalidInputError", MsgAbiRequired)
    ELSE mapEndpoints(contractAddress, publicEndpoints(abi.endpoints), 1, << >>)

(***************************************************************************)
(* The ABI documents and the calls explored.                               *)
(***************************************************************************)

\* Wrapper<inner>
Gen(wrapper, inner) == wrapper \o << "<" >> \o inner \o << ">" >>

WList == << "L", "i", "s", "t" >>
WOption == << "O", "p", "t", "i", "o", "n" >>
WOptional == << "o", "p", "t", "i", "o", "n", "a", "l" >>
WVariadic == << "v", "a", "r", "i", "a", "d", "i", "c" >>
WMulti == << "m", "u", "l", "t", "i" >>
WTuple == << "t", "u", "p", "l", "e" >>
WVec == << "V", "e", "c" >>
WArray == << "a", "r", "r", "a", "y" >>
WArray2 == << "a", "r", "r", "a", "y", "2" >>

\* names of the custom types of the sample ABI
Pair == << "P", "a", "i", "r" >>
Wallet == << "W", "a", "l", "l", "e", "t" >>
Unit == << "U", "n", "i", "t" >>
Kind == << "K", "i", "n", "d" >>
Flag == << "F", "l", "a", "g" >>
Duo == << "D", "u", "o" >>
Legacy == << "L", "e", "g", "a", "c", "y" >>
Odd == << "O", "d", "d" >>
Entry == << "E", "n", "t", "r", "y" >>
Nest == << "N", "e", "s", "t" >>
\* a name no ABI declares
Foo == << "F", "o", "o" >>

Field(name, type) == [name |-> name, type |-> type]
\* a variant written without a "fields" key
VariantBare(name) == [name |-> name, hasFields |-> FALSE, fields |-> << >>]
\* a variant written with a "fields" list (possibly empty)
VariantWith(name, fields) == [name |-> name, hasFields |-> TRUE, fields |-> fields]

SampleTypes ==
    (Pair :> [kind |-> "struct", fields |-> << Field("x", U32), Field("y", U32) >>])
    @@ (Wallet :> [kind |-> "struct",
                   fields |-> << Field("id", U8), Field("amount", BigUint) >>])
    @@ (Unit :> [kind |-> "struct", fields |-> << >>])
    @@ (Kind :> [kind |-> "enum",
                 variants |-> << VariantBare("None"),
                                 VariantWith("Empty", << >>),
                                 VariantWith("Some", << Field("amount", BigUint),
                                                        Field("a", U8) >>) >>])
    @@ (Flag :> [kind |-> "enum", variants |-> << VariantBare("Off"), VariantBare("On") >>])
    @@ (Duo :> [kind |-> "array", items |-> << U8, U16 >>])
    @@ (Legacy :> [kind |-> "explicit-enum"])
    @@ (Odd :> [kind |-> "struct", fields |-> << Field("a", U8), Field("b", Foo) >>])
    @@ (Entry :> [kind |-> "struct", fields |-> << Field("a", Address), Field("b", U64) >>])
    @@ (Nest :> [kind |-> "struct",
                 fields |-> << Field("p", Pair), Field("l", Gen(WList, U32)),
                               Field("k", Kind) >>])

\* the contract the Warps are generated for
ContractAddress ==
    << "e", "r", "d", "1", "q", "q", "q", "q", "q", "p", "g", "q" >>
ContractName == "Sample"

\* an ABI document: its name, its custom types, its endpoints
SampleAbi == [name |-> ContractName, types |-> SampleTypes, endpoints |-> << >>]
\* an ABI document without custom types
PlainAbi == [name |-> ContractName, types |-> << >>, endpoints |-> << >>]

DefaultOptions == [parseJson |-> TRUE, decodeBase64 |-> TRUE]

\* new AbiTypeConverter(abiJson, options): absent options default to true
OptionSets == [parseJson : BOOLEAN, decodeBase64 : BOOLEAN]

\* the pieces the explored buffers are concatenated from
Words == { << 0 >>, << 1 >>, << 2 >>, << 0, 0, 0, 1 >>, << 0, 0, 0, 1, 2 >> }

MaxParts == 3

RECURSIVE Concats(_)
Concats(n) ==
    IF n = 0 THEN { << >> }
    ELSE LET prev == Concats(n - 1)
         IN  prev \cup { b \o w : b \in prev, w \in Words }

Buffers == Concats(MaxParts)

\* the buffers of a call with several responses
ResponseBuffers == { << >>, << 1 >>, << 0, 0, 0, 1 >>, << 0, 0, 0, 1, 2 >> }

MaxBuffers == 3

RECURSIVE SeqsUpTo(_, _)
SeqsUpTo(S, n) ==
    IF n = 0 THEN { << >> }
    ELSE LET prev == SeqsUpTo(S, n - 1)
         IN  prev \cup { Append(q, x) : q \in prev, x \in S }

\* buffers that hold the extreme values of a fixed-width integer of w bytes
IntBuffers(w) ==
    { b \in [1..w -> { 0, 127, 128, 255 }] : \A i \in 2..w : b[i] \in { 0, 255 } }

IntWidth(type) ==
    CASE type \in { U8, I8 } -> 1
      [] type \in { U16, I16 } -> 2
      [] type \in { U32, I32 } -> 4
      [] type \in { U64, I64 } -> 8

FixedIntTypes == { U8, I8, U16, I16, U32, I32, U64, I64 }

ReadHexTypes ==
    { U8, I8, U16, I16, U32, I32, U64, I64, Usize, BigUint, Bool, Bytes, Address,
      TokenIdentifier,
      Gen(WOptional, BigUint), Gen(WOption, U8), Gen(WOption, BigUint), Gen(WOption, Pair),
      Gen(WOption, Foo),
      Gen(WList, U8), Gen(WList, BigUint), Gen(WList, Pair), Gen(WList, Gen(WOption, U8)),
      Gen(WList, Gen(WList, U8)), Gen(WList, Unit), Gen(WList, Kind), Gen(WVec, U16),
      Gen(WVariadic, BigUint),
      Gen(WMulti, U8 \o << "," >> \o U16),
      Gen(WTuple, U8 \o << ",", " " >> \o BigUint),
      Gen(WMulti, U8 \o << "," >> \o Gen(WMulti, U8 \o << "," >> \o U8)),
      Gen(WArray2, U8), Gen(WArray, Gen(WArray2, U8)),
      Gen(WArray, << "2" >>) \o Gen(<< >>, U8),
      Pair, Wallet, Unit, Kind, Flag, Duo, Legacy, Foo, Gen(WList, Foo),
      Gen(WOptional, Foo), Gen(WVariadic, Foo), Gen(WMulti, U8 \o << "," >> \o Foo), Odd }

ParseTypes ==
    { U8, U32, BigUint, Bytes, Pair, Gen(WList, U8), Gen(WOption, U8),
      Foo, Gen(WList, Flag), Gen(WVariadic, U32), Gen(WVariadic, BigUint),
      Gen(WVariadic, Gen(WMulti, U8)),
      Gen(WVariadic, Gen(WMulti, U8 \o << "," >> \o U32)),
      Gen(WVariadic, Gen(WMulti, U8 \o << ",", " " >> \o BigUint)),
      Gen(WVariadic, Gen(WMulti, U8 \o << "," >> \o BigUint \o << "," >> \o U8)) }

Input(name, type) == [name |-> name, type |-> type]

\* an AbiEndpoint: absent payableInTokens and inputs are << >>, a missing name
\* is the empty string, onlyOwner is "undefined" until set to "true" or "false"
Endpoint(name, mutability, payableInTokens, inputs) ==
    [name |-> name, mutability |-> mutability, payableInTokens |-> payableInTokens,
     inputs |-> inputs, onlyOwner |-> "undefined"]

\* the endpoint argument of a call that takes none
NoEndpoint == Endpoint(<< >>, "mutable", << >>, << >>)

Call(a, o, operation, responses, type, flag) ==
    [abi |-> a, options |-> o, op |-> operation, hexResponses |-> responses,
     responseType |-> type, topFlag |-> flag, abiType |-> << >>,
     endpoint |-> NoEndpoint, address |-> << >>]

\* the values originalTypeIsPrimitive takes in a read of type t: false in a
\* nested read, true only where parseHexResponse computes it true
ReadFlags(t) == IF TopLevelFlag(t) THEN BOOLEAN ELSE { FALSE }

\* readHex on one buffer, as a top-level or as a nested read
ReadHexReads == { r \in ReadHexTypes \X BOOLEAN : r[2] \in ReadFlags(r[1]) }

ReadHexCalls ==
    { Call(SampleAbi, DefaultOptions, "readHex", << d >>, r[1], r[2]) :
        d \in Buffers, r \in ReadHexReads }

ParseCalls ==
    { Call(SampleAbi, DefaultOptions, "parseHexResponse", r, t, FALSE) :
        r \in SeqsUpTo(ResponseBuffers, MaxBuffers), t \in ParseTypes }

IntCalls ==
    UNION { { Call(PlainAbi, DefaultOptions, "parseHexResponse", << b >>, t, FALSE) :
                b \in IntBuffers(IntWidth(t)) } : t \in FixedIntTypes }

\* 32 bytes of a public key
ZeroKey == [i \in 1..32 |-> 0]

\* the worked examples: the big-integer asymmetry, a full enum variant, an
\* address, and nested byte strings holding base64 ("YQ==", "e30=", "W10=", "ew==")
ExampleReads ==
    { << << 0, 0, 0, 0, 0, 0, 0, 5 >>, BigUint, TRUE >>,
      << << 0, 0, 0, 1, 5 >>, BigUint, FALSE >>,
      << << 7, 0, 0, 0, 1, 5 >>, Wallet, FALSE >>,
      << << 2, 0, 0, 0, 1, 5, 9 >>, Kind, FALSE >>,
      << << 0, 0, 0, 1, 0, 0, 0, 2 >>, Pair, FALSE >>,
      << << 0, 0, 0, 1, 1, 0, 0, 0, 1, 2 >>, Gen(WList, Gen(WList, U8)), FALSE >>,
      << ZeroKey, Address, TRUE >>,
      << ZeroKey \o << 1 >>, Address, FALSE >>,
      << ZeroKey, Gen(WList, Address), FALSE >>,
      << << 69, 71, 76, 68 >>, EgldOrEsdtTokenIdentifier, TRUE >>,
      << << 0, 0, 0, 4, 69, 71, 76, 68 >>, EgldOrEsdtTokenIdentifier, FALSE >>,
      << << 1 >>, Isize, FALSE >>,
      << << 0, 0, 0, 4, 89, 81, 61, 61 >>, Bytes, FALSE >>,
      << << 0, 0, 0, 4, 101, 51, 48, 61 >>, Bytes, FALSE >>,
      << << 0, 0, 0, 4, 87, 49, 48, 61 >>, Bytes, FALSE >>,
      << << 0, 0, 0, 4, 101, 119, 61, 61 >>, Bytes, FALSE >>,
      << << 0, 0, 0, 4, 89, 81, 61, 61 >>, Gen(WList, Bytes), FALSE >>,
      << << 89, 81, 61, 61 >>, Bytes, TRUE >> }

ExampleCalls ==
    { Call(a, o, "readHex", << e[1] >>, e[2], e[3]) :
        a \in { SampleAbi, PlainAbi }, o \in OptionSets, e \in ExampleReads }
    \cup
    { Call(a, o, "parseHexResponse", << e[1] >>, e[2], FALSE) :
        a \in { SampleAbi, PlainAbi }, o \in OptionSets, e \in ExampleReads }

\* the type names handed to convertType: names without brackets, ...
ConvBase ==
    { Address, U64, U32, U8, I16, BigUint, Bytes, Bool, TokenIdentifier,
      EgldOrEsdtTokenIdentifier, Pair, Wallet, Unit, Entry, Nest, Odd, Kind, Flag,
      Duo, Legacy, Foo }

\* ... the four wrappers of convertType and multi over given inner types, ...
ConvWrappers == { WOption, WOptional, WList, WVariadic }
Wrapped(inner) == { Gen(w, t) : w \in ConvWrappers, t \in inner }
Multis(inner) ==
    { Gen(WMulti, a \o << "," >> \o b) : a \in inner, b \in { Address, U32 } }
    \cup { Gen(WMulti, a \o << "," >> \o b) : a \in { Address, BigUint, Legacy }, b \in inner }
    \cup { Gen(WMulti, U8 \o << ",", " " >> \o b \o << "," >> \o U8) : b \in inner }

\* ... nested up to MaxNesting levels (the inner types of the deeper levels
\* are a sample of the level below), ...
MaxNesting == 2

ConvInner == { Address, U32, BigUint, Pair, Foo }

RECURSIVE ConvLevel(_)
ConvLevel(n) ==
    IF n = 0 THEN ConvInner
    ELSE LET below == ConvLevel(n - 1)
             sample == { t \in below : Len(t) <= 7 * n + 4 }
         IN  below \cup Wrapped(sample) \cup Multis(sample)

WellFormed == ConvBase \cup ConvLevel(MaxNesting) \cup Wrapped(ConvBase)

\* ... and names that are not in the grammar: a bracket dropped or added, a
\* blank around the inner type, an empty inner list, the empty name
Malformed ==
    { SubSeq(t, 1, Len(t) - 1) : t \in Wrapped(ConvInner) \cup Multis({ U8, Gen(WList, U32) }) }
    \cup { t \o << ">" >> : t \in Wrapped(ConvInner) \cup { U32 } }
    \cup { Gen(WMulti, U8 \o << ">", "," >> \o U32), Gen(WMulti, << >>),
           Gen(WMulti, << "," >> \o U8), Gen(WMulti, U8 \o << "," >>),
           Gen(WList, << >>), Gen(WList, << " " >> \o U32 \o << " " >>),
           Gen(WList, U32) \o << " " >> \o Foo, << >> }

ConvertTypes == WellFormed \cup Malformed

ConvertCall(a, type) ==
    [abi |-> a, options |-> DefaultOptions, op |-> "convertType", hexResponses |-> << >>,
     responseType |-> << >>, topFlag |-> FALSE, abiType |-> type,
     endpoint |-> NoEndpoint, address |-> << >>]

ConvertCalls == { ConvertCall(a, t) : a \in { SampleAbi, PlainAbi }, t \in ConvertTypes }

\* the declared types of the explored inputs: plain, optional< and Option<,
\* names that begin with option: / optional:, a struct, a multi whose
\* composite mixes plain and ':' parts, a name that does not convert, no type
InputTypes ==
    { U64, BigUint, Address, Bool, TokenIdentifier, Pair,
      Gen(WOptional, U32), Gen(WOption, U32), Gen(WOptional, BigUint),
      Gen(WList, BigUint), Gen(WVariadic, Gen(WMulti, Address \o << "," >> \o U32)),
      nestedTypesMapping[1][2] \o U8, nestedTypesMapping[2][2] \o Bool,
      Gen(WMulti, Address \o << "," >> \o Gen(WList, U32)),
      Gen(WMulti, Address \o << "," >> \o BigUint),
      nestedTypesMapping[2][2] \o BigUint,
      SubSeq(Gen(WList, U32), 1, 8), << >> }

InputNames == << << "t", "o" >>, << "a", "m", "o", "u", "n", "t" >>, << "k" >>, << "n" >> >>

MaxInputs == 2

\* the declared input lists: up to MaxInputs inputs, named by position, ...
InputLists ==
    { [i \in 1..Len(ts) |-> Input(InputNames[i], ts[i])] : ts \in SeqsUpTo(InputTypes, MaxInputs) }

\* ... and a list whose second input has no name
NamelessInputs == << Input(InputNames[1], U64), Input(<< >>, U64) >>

PayableLists ==
    { << >>, << "EGLD" >>, << "*" >>, << "TOK-1a2b3c" >>, << "EGLD", "TOK-1a2b3c" >>,
      << "TOK-1a2b3c", "EGLD", "WEGLD-bd4d79" >>, << "EGLD", "*" >> }

EndpointName == << "s", "w", "a", "p" >>

Endpoints ==
    { Endpoint(EndpointName, "mutable", p, i) :
        p \in { << >>, << "*" >>, << "EGLD", "TOK-1a2b3c" >> }, i \in InputLists }
    \cup { Endpoint(EndpointName, m, p, i) :
             m \in { "mutable", "readonly" }, p \in PayableLists,
             i \in { << >>, << Input(InputNames[1], Address) >>, NamelessInputs } }
    \cup { Endpoint(<< >>, "mutable", << >>, << >>) }

WarpCalls ==
    { [abi |-> SampleAbi, options |-> DefaultOptions, op |-> "endpointToWarp",
       hexResponses |-> << >>, responseType |-> << >>, topFlag |-> FALSE,
       abiType |-> << >>, endpoint |-> e, address |-> ContractAddress] :
        e \in Endpoints }

\* an endpoint with its onlyOwner key set
OnlyOwner(endpoint, flag) == [endpoint EXCEPT !.onlyOwner = flag]

\* the endpoints the explored ABI documents declare, each under its own name:
\* public ones (onlyOwner absent or false), owner-only ones (one of them with
\* a nameless input), public ones endpointToWarp fails on, one without a name
AbiEndpoints ==
    << Endpoint(EndpointName, "mutable", << "EGLD" >>,
                << Input(InputNames[1], Address) >>),
       OnlyOwner(Endpoint(<< "c", "l", "a", "i", "m" >>, "readonly", << >>, << >>),
                 "false"),
       OnlyOwner(Endpoint(<< "p", "a", "u", "s", "e" >>, "mutable", << >>, << >>),
                 "true"),
       OnlyOwner(Endpoint(<< "d", "r", "a", "i", "n" >>, "mutable", << >>,
                          NamelessInputs), "true"),
       Endpoint(<< "v", "i", "e", "w" >>, "readonly", << >>, NamelessInputs),
       Endpoint(<< "p", "a", "y" >>, "mutable", << "*" >>,
                << Input(InputNames[1],
                         Gen(WMulti, Address \o << "," >> \o Gen(WList, U32))) >>),
       Endpoint(<< >>, "mutable", << >>, << >>) >>

MaxEndpoints == 3

\* the endpoint lists of the explored ABI documents
EndpointLists ==
    { [i \in 1..Len(ix) |-> AbiEndpoints[ix[i]]] :
        ix \in SeqsUpTo(DOMAIN AbiEndpoints, MaxEndpoints) }

\* the contractAddress arguments: a valid one, the empty or absent one, one
\* with another prefix, one with the prefix in upper case
Addresses ==
    { ContractAddress, << >>, << "a", "b", "c", "1", "q" >>,
      << "E", "R", "D", "1", "q", "q" >> }

GenerateCall(a, address) ==
    [abi |-> a, options |-> DefaultOptions, op |-> "generateWarps",
     hexResponses |-> << >>, responseType |-> << >>, topFlag |-> FALSE,
     abiType |-> << >>, endpoint |-> NoEndpoint, address |-> address]

GenerateCalls ==
    { GenerateCall([SampleAbi EXCEPT !.endpoints = e], ContractAddress) :
        e \in EndpointLists }
    \cup { GenerateCall(a, address) :
             a \in { NoAbi, [SampleAbi EXCEPT !.endpoints = AbiEndpoints] },
             address \in Addresses }

\* endpointToWarp on a generator constructed without an ABI
NoAbiCalls ==
    { [GenerateCall(NoAbi, ContractAddress) EXCEPT
          !.op = "endpointToWarp", !.endpoint = AbiEndpoints[i]] : i \in 1..2 }

\* the families of calls explored
Calls ==
    << ReadHexCalls, ParseCalls, IntCalls, ExampleCalls, ConvertCalls, WarpCalls,
       GenerateCalls, NoAbiCalls >>

(***************************************************************************)
(* The state machine: a converter or a generator is constructed, one call  *)
(* is made on it.                                                          *)
(***************************************************************************)

NoResult == [st |-> "none"]

Init ==
    \E k \in DOMAIN Calls : \E c \in Calls[k] :
        /\ abi = c.abi
        /\ options = c.options
        /\ op = c.op
        /\ hexResponses = c.hexResponses
        /\ responseType = c.responseType
        /\ topFlag = c.topFlag
        /\ convertArg = c.abiType
        /\ endpointArg = c.endpoint
        /\ addressArg = c.address
        /\ pc = "call"
        /\ result = NoResult
        /\ history = << >>

\* a variant of the call that switches JSON parsing off once it has run
ParseHexResponse_switching ==
    /\ pc = "call"
    /\ op = "parseHexResponse"
    /\ result' = parseHexResponse(hexResponses, responseType)
    /\ pc' = "done"
    /\ options' = [options EXCEPT !.parseJson = FALSE]
    /\ UNCHANGED << abi, op, hexResponses, responseType, topFlag, convertArg,
                   endpointArg, addressArg, history >>

\* public parseHexResponse(hexResponses, responseType)
ParseHexResponse ==
    /\ pc = "call"
    /\ op = "parseHexResponse"
    /\ result' = parseHexResponse(hexResponses, responseType)
    /\ pc' = "done"
    /\ UNCHANGED << abi, options, op, hexResponses, responseType, topFlag, convertArg,
                   endpointArg, addressArg, history >>

\* private readHex(data, objectType, originalTypeIsPrimitive)
ReadHex ==
    /\ pc = "call"
    /\ op = "readHex"
    /\ result' = readHex(hexResponses[1], responseType, topFlag)
    /\ pc' = "done"
    /\ UNCHANGED << abi, options, op, hexResponses, responseType, topFlag, convertArg,
                   endpointArg, addressArg, history >>

\* public convertType(abiType) of a generator constructed over the ABI
ConvertType ==
    /\ pc = "call"
    /\ op = "convertType"
    /\ result' = convertType(convertArg)
    /\ pc' = "done"
    /\ UNCHANGED << abi, options, op, hexResponses, responseType, topFlag, convertArg,
                   endpointArg, addressArg, history >>

\* public endpointToWarp(contractAddress, contractName, endpoint)
EndpointToWarp ==
    /\ pc = "call"
    /\ op = "endpointToWarp"
    /\ result' = endpointToWarp(addressArg, ContractName, endpointArg)
    /\ pc' = "done"
    /\ UNCHANGED << abi, options, op, hexResponses, responseType, topFlag, convertArg,
                   endpointArg, addressArg, history >>

\* public generateWarps(contractAddress)
GenerateWarps ==
    /\ pc = "call"
    /\ op = "generateWarps"
    /\ result' = generateWarps(addressArg)
    /\ pc' = "done"
    /\ UNCHANGED << abi, options, op, hexResponses, responseType, topFlag, convertArg,
                   endpointArg, addressArg, history >>

Next == ParseHexResponse \/ ReadHex \/ ConvertType \/ EndpointToWarp \/ GenerateWarps

Spec == Init /\ [][Next]_vars

(***************************************************************************)
(* Several calls in a row on a converter and a generator constructed over  *)
(* the same ABI document: the calls made so far are kept in history.       *)
(***************************************************************************)

\* the ABI document of the instances that are called repeatedly
SeqAbi == [SampleAbi EXCEPT !.endpoints = SubSeq(AbiEndpoints, 1, 3)]

\* the calls made on them
SeqCalls ==
    { Call(SeqAbi, DefaultOptions, "parseHexResponse",
           << << 101, 51, 48, 61 >> >>, Bytes, FALSE),
      Call(SeqAbi, DefaultOptions, "parseHexResponse",
           << << 0, 0, 0, 1, 0, 0, 0, 2 >>, << 0, 0, 0, 1 >> >>, Pair, FALSE),
      Call(SeqAbi, DefaultOptions, "parseHexResponse", << << 1 >> >>, Foo, FALSE),
      Call(SeqAbi, DefaultOptions, "readHex",
           << << 0, 0, 0, 4, 101, 51, 48, 61 >> >>, Bytes, FALSE),
      ConvertCall(SeqAbi, Nest),
      ConvertCall(SeqAbi, Gen(WList, U32) \o << ">" >>),
      [GenerateCall(SeqAbi, ContractAddress) EXCEPT
          !.op = "endpointToWarp", !.endpoint = AbiEndpoints[1]],
      [GenerateCall(SeqAbi, ContractAddress) EXCEPT
          !.op = "endpointToWarp", !.endpoint = AbiEndpoints[5]],
      GenerateCall(SeqAbi, ContractAddress),
      GenerateCall(SeqAbi, << >>) }

MaxCalls == 3

\* the arguments of the call in progress or just made
CurrentCall ==
    [op |-> op, hexResponses |-> hexResponses, responseType |-> responseType,
     topFlag |-> topFlag, abiType |-> convertArg, endpoint |-> endpointArg,
     address |-> addressArg]

\* the arguments of a call are set
Arguments(c) ==
    /\ op' = c.op
    /\ hexResponses' = c.hexResponses
    /\ responseType' = c.responseType
    /\ topFlag' = c.topFlag
    /\ convertArg' = c.abiType
    /\ endpointArg' = c.endpoint
    /\ addressArg' = c.address

InitSeq ==
    \E c \in SeqCalls, o \in OptionSets :
        /\ abi = c.abi
        /\ options = o
        /\ op = c.op
        /\ hexResponses = c.hexResponses
        /\ responseType = c.responseType
        /\ topFlag = c.topFlag
        /\ convertArg = c.abiType
        /\ endpointArg = c.endpoint
        /\ addressArg = c.address
        /\ pc = "call"
        /\ result = NoResult
        /\ history = << >>

\* the caller keeps the outcome and makes another call on the same instances
Again ==
    /\ pc = "done"
    /\ Len(history) < MaxCalls - 1
    /\ \E c \in SeqCalls : Arguments(c)
    /\ history' = Append(history, [call |-> CurrentCall, result |-> result])
    /\ pc' = "call"
    /\ result' = NoResult
    /\ UNCHANGED << abi, options >>

NextSeq == Next \/ Again

SpecSeq == InitSeq /\ [][NextSeq]_vars

(***************************************************************************)
(* Properties.                                                             *)
(***************************************************************************)

Done(operation) == pc = "done" /\ op = operation

\* the read parseHexResponse makes of response number i of a regular call
RegularRead(i) == readHex(hexResponses[i], responseType, TopLevelFlag(responseType))

\* C1: a call that does not take the variadic<multi<...>> branch and whose
\* reads all succeed returns the bare value of its single response, and for
\* any other number of responses the array of the values, one per response,
\* in the order of the responses.
C1_RegularResponses ==
    ( /\ Done("parseHexResponse")
      /\ ~IsVariadicMulti(responseType)
      /\ \A i \in 1..Len(hexResponses) : RegularRead(i).st = "ok" )
    => /\ result.st = "ok"
       /\ Len(hexResponses) = 1 => result.value = RegularRead(1).value
       /\ Len(hexResponses) # 1 =>
            /\ result.value.k = "arr"
            /\ Len(result.value.items) = Len(hexResponses)
            /\ \A i \in 1..Len(hexResponses) :
                 result.value.items[i] = RegularRead(i).value

\* three responses decoded to an array whose order is visible
C1_Witness ==
    /\ Done("parseHexResponse")
    /\ ~IsVariadicMulti(responseType)
    /\ Len(hexResponses) = 3
    /\ result.st = "ok"
    /\ result.value.k = "arr"
    /\ Len(result.value.items) = 3
    /\ result.value.items[1] # result.value.items[3]

\* the subtypes of a variadic<multi<...>> call, and the read made of response i
C2_Types == VariadicMultiTypes(responseType)
C2_Read(i, j) ==
    readHex(hexResponses[i], Trim(C2_Types[j]), isPrimitiveType(C2_Types[j]))
C2_ReadsOk ==
    \A i \in 1..Len(hexResponses) : C2_Read(i, ((i - 1) % Len(C2_Types)) + 1).st = "ok"

\* C2 as claimed: in the variadic<multi<T1,...,Tk>> branch every inner array
\* has exactly k elements, whatever the number of responses.
C2_Original ==
    ( Done("parseHexResponse") /\ IsVariadicMulti(responseType) /\ result.st = "ok" )
    => /\ result.value.k = "arr"
       /\ \A c \in 1..Len(result.value.items) :
            Len(result.value.items[c].items) = Len(C2_Types)

\* C2 (amended): the n responses are regrouped in order into ceil(n/k) chunks;
\* every chunk has k elements except the last, which has the n - k*(ceil(n/k)-1)
\* responses that are left; element j of chunk c is the decode of response
\* (c-1)*k + j against the trimmed subtype Tj.
C2_Chunked ==
    ( Done("parseHexResponse") /\ IsVariadicMulti(responseType) /\ C2_ReadsOk )
    => LET n == Len(hexResponses)
           k == Len(C2_Types)
           outer == result.value.items
       IN  /\ result.st = "ok"
           /\ result.value.k = "arr"
           /\ Len(outer) = (n + k - 1) \div k
           /\ \A c \in 1..Len(outer) :
                /\ outer[c].k = "arr"
                /\ Len(outer[c].items) = (IF c * k <= n THEN k ELSE n - (c - 1) * k)
                /\ \A j \in 1..Len(outer[c].items) :
                     outer[c].items[j] = C2_Read((c - 1) * k + j, j).value

\* three responses against two subtypes: a full chunk and a chunk of one
C2_Witness ==
    /\ Done("parseHexResponse")
    /\ IsVariadicMulti(responseType)
    /\ Len(C2_Types) = 2
    /\ Len(hexResponses) = 3
    /\ result.st = "ok"
    /\ Len(result.value.items) = 2
    /\ Len(result.value.items[1].items) = 2
    /\ Len(result.value.items[2].items) = 1

\* C3 as claimed: a read that returns a pair never reports more bytes
\* consumed than the buffer it was given holds.
C3_Original ==
    ( Done("readHex") /\ result.st = "ok" ) => result.len <= Len(hexResponses[1])

\* a buffer starts with a complete length-prefixed field: 4 bytes of length L, then L bytes
LPOk(d) == Len(d) >= 4 /\ Len(d) >= 4 + U32Of(d)
LPBytes(d) == SubSeq(d, 5, 4 + U32Of(d))

\* C4: BigUint as the top-level primitive is the decimal string of the whole
\* buffer and consumes all of it; BigUint inside a struct, an enum variant,
\* an Option, a List or a tuple is a 4-byte length L and L bytes, rendered as
\* the hex string of those bytes, consuming 4 + L.
C4_BigUintAsymmetry ==
    /\ ( Done("parseHexResponse") /\ responseType = BigUint /\ Len(hexResponses) = 1 )
       => result = Ret(StrV(DecimalOf(hexResponses[1])))
    /\ Done("readHex") =>
         LET data == hexResponses[1]
             rest == Tail(data)
             hex(d) == StrV(HexOf(LPBytes(d)))
         IN  /\ ( responseType = BigUint /\ topFlag )
                => result = Ok(StrV(DecimalOf(data)), Len(data))
             /\ ( responseType = BigUint /\ ~topFlag /\ LPOk(data) )
                => result = Ok(hex(data), 4 + U32Of(data))
             /\ ( responseType = BigUint /\ topFlag /\ data = << 0, 0, 0, 0, 0, 0, 0, 5 >> )
                => result.value = StrV(<< 53 >>)
             /\ ( responseType = BigUint /\ ~topFlag /\ data = << 0, 0, 0, 1, 5 >> )
                => result.value = StrV(<< 48, 53 >>)
             /\ ( responseType = Wallet /\ HasCustomType(Wallet) /\ data # << >> /\ LPOk(rest) )
                => result = Ok(ObjV(<< << "id", NumV(DecimalOf(<< data[1] >>)) >>,
                                       << "amount", hex(rest) >> >>),
                               5 + U32Of(rest))
             /\ ( responseType = Kind /\ HasCustomType(Kind) /\ data # << >> /\ data[1] = 2
                  /\ LPOk(rest) )
                => /\ result.st = "ok"
                   /\ result.value.entries[1][2].entries[1] = << "amount", hex(rest) >>
             /\ ( responseType = Gen(WOption, BigUint) /\ data # << >> /\ data[1] # 0
                  /\ LPOk(rest) )
                => result = Ok(hex(rest), 5 + U32Of(rest))
             /\ ( responseType = Gen(WList, BigUint) /\ LPOk(data)
                  /\ Len(data) = 4 + U32Of(data) )
                => result = Ok(ArrV(<< hex(data) >>), Len(data))
             /\ ( responseType = Gen(WTuple, U8 \o << ",", " " >> \o BigUint)
                  /\ data # << >> /\ LPOk(rest) )
                => result = Ok(ArrV(<< NumV(DecimalOf(<< data[1] >>)), hex(rest) >>),
                               5 + U32Of(rest))

\* the struct field [0,0,0,1,5] read as the hex string "05"
C4_Witness ==
    /\ Done("readHex")
    /\ responseType = Wallet
    /\ hexResponses = << << 7, 0, 0, 0, 1, 5 >> >>
    /\ result.st = "ok"
    /\ result.value.entries[2] = << "amount", StrV(<< 48, 53 >>) >>

\* b + 1 on a big-endian buffer, the carry out of the first byte dropped
RECURSIVE Increment(_)
Increment(b) ==
    IF b = << >> THEN << >>
    ELSE IF b[Len(b)] < 255 THEN [b EXCEPT ![Len(b)] = @ + 1]
    ELSE Append(Increment(SubSeq(b, 1, Len(b) - 1)), 0)

\* the decimal digits of the integer a buffer holds in two's complement
SignedDecimalOf(b) ==
    IF b[1] >= 128
    THEN << 45 >> \o DecimalOf(Increment([i \in 1..Len(b) |-> 255 - b[i]]))
    ELSE DecimalOf(b)

\* the value whose fixed-width big-endian encoding (two's complement for the
\* signed types) is the buffer b
EncodedInt(type, b) ==
    LET dec == IF type \in { I8, I16, I32, I64 } THEN SignedDecimalOf(b) ELSE DecimalOf(b)
    IN  IF type \in { U64, I64 } THEN StrV(dec) ELSE NumV(dec)

\* C5 as claimed: decoding the w-byte encoding of v with a fixed-width
\* integer type gives v back (a number, a decimal string for 64 bits) and
\* consumes w bytes.
C5_Original ==
    ( /\ pc = "done"
      /\ responseType \in FixedIntTypes
      /\ Len(hexResponses) = 1
      /\ Len(hexResponses[1]) = IntWidth(responseType) )
    => /\ result.st = "ok"
       /\ result.value = EncodedInt(responseType, hexResponses[1])
       /\ op = "readHex" => result.len = IntWidth(responseType)

\* p is the nested encoding of one value of element type T, as the reference
\* encoder lays it out (a nested list carries a 4-byte count of its items)
RECURSIVE IsNested(_, _)
IsNested(p, T) ==
    CASE T = U8 -> Len(p) = 1
      [] T = BigUint -> Len(p) >= 4 /\ Len(p) = 4 + U32Of(p)
      [] T = Pair -> Len(p) = 8
      [] T = Gen(WOption, U8) -> p = << 0 >> \/ (Len(p) = 2 /\ p[1] = 1)
      [] T = Kind -> /\ Len(p) >= 1
                     /\ \/ p[1] \in { 0, 1 } /\ Len(p) = 1
                        \/ /\ p[1] = 2
                           /\ Len(p) >= 6
                           /\ IsNested(SubSeq(p, 2, Len(p) - 1), BigUint)
      [] T = Gen(WList, U8) -> Len(p) >= 4 /\ Len(p) = 4 + U32Of(p)
      [] OTHER -> FALSE

\* every way to cut d into nested encodings of T, as the sequence of the pieces
RECURSIVE NestedSplits(_, _)
NestedSplits(d, T) ==
    IF d = << >> THEN { << >> }
    ELSE UNION { { << SubSeq(d, 1, n) >> \o rest :
                     rest \in NestedSplits(SubSeq(d, n + 1, Len(d)), T) } :
                 n \in { m \in 1..Len(d) : IsNested(SubSeq(d, 1, m), T) } }

\* the list read of the concatenation of the pieces gives one item per piece
C6_ItemPerPiece(T, pieces) ==
    result = Ok(ArrV([i \in 1..Len(pieces) |-> readHex(pieces[i], T, FALSE).value]),
                Len(hexResponses[1]))

C6_ElementType == extractGenericType(responseType, PatList)

\* C6 as claimed: for every element type, collections included, and every
\* N >= 0, List<T> over the concatenation of N nested encodings of T decodes
\* to N items, item i the decode of encoding i, and consumes the whole buffer.
C6_Original ==
    ( /\ Done("readHex")
      /\ StartsWith(responseType, PatList)
      /\ C6_ElementType \in { U8, BigUint, Pair, Gen(WOption, U8), Kind, Gen(WList, U8) } )
    => \A pieces \in NestedSplits(hexResponses[1], C6_ElementType) :
          C6_ItemPerPiece(C6_ElementType, pieces)

\* C6 (amended): for an element type whose nested encoding is not empty and
\* delimits itself (fixed-width or length-prefixed primitive, struct, enum,
\* Option of such) and every N >= 1, List<T> over the concatenation of N
\* nested encodings of T decodes to N items, item i the decode of encoding i,
\* and consumes the whole buffer; over the empty buffer (N = 0) it is (null, 0).
C6_ListOfDelimited ==
    ( /\ Done("readHex")
      /\ StartsWith(responseType, PatList)
      /\ C6_ElementType \in { U8, BigUint, Pair, Gen(WOption, U8), Kind } )
    => /\ \A pieces \in NestedSplits(hexResponses[1], C6_ElementType) :
            pieces # << >> => C6_ItemPerPiece(C6_ElementType, pieces)
       /\ hexResponses[1] = << >> => result = Ok(NullV, 0)

\* two length-prefixed big integers decoded to a list of two
C6_Witness ==
    /\ Done("readHex")
    /\ responseType = Gen(WList, BigUint)
    /\ hexResponses = << << 0, 0, 0, 1, 2, 0, 0, 0, 1, 2 >> >>
    /\ result.st = "ok"
    /\ Len(result.value.items) = 2
    /\ result.len = 10

\* C7: Option<T> over a buffer that starts with 0x00 is (null, 1) whatever T
\* is; over a buffer that starts with a nonzero byte it is the value T decodes
\* from the rest, with one byte more consumed than T consumed.
C7_Option ==
    ( Done("readHex") /\ StartsWith(responseType, PatOption) /\ hexResponses[1] # << >> )
    => LET data == hexResponses[1]
           inner == readHex(Tail(data), Trim(Slice(responseType, Len(PatOption), 1)), FALSE)
       IN  /\ data[1] = 0 => result = Ok(NullV, 1)
           /\ ( data[1] # 0 /\ inner.st = "ok" ) => result = Ok(inner.value, 1 + inner.len)

\* Some(big integer): flag byte, then the length-prefixed value
C7_Witness ==
    /\ Done("readHex")
    /\ responseType = Gen(WOption, BigUint)
    /\ hexResponses = << << 1, 0, 0, 0, 1, 2 >> >>
    /\ result = Ok(StrV(<< 48, 50 >>), 6)

\* where field i of fields starts when the fields are read one after the other
\* from offset base of data; -1 when an earlier field cannot be read
RECURSIVE FieldStart(_, _, _, _)
FieldStart(data, fields, base, i) ==
    IF i = 1 THEN base
    ELSE LET s == FieldStart(data, fields, base, i - 1)
         IN  IF s < 0 THEN -1
             ELSE LET r == readHex(Subarray(data, s, Len(data)), fields[i - 1].type, FALSE)
                  IN  IF r.st = "ok" THEN s + r.len ELSE -1

\* the record of the fields, each read at its start
FieldRecord(data, fields, base) ==
    ObjV([i \in 1..Len(fields) |->
            << fields[i].name,
               readHex(Subarray(data, FieldStart(data, fields, base, i), Len(data)),
                       fields[i].type, FALSE).value >>])

IsEnumRead ==
    /\ Done("readHex")
    /\ HasCustomType(responseType)
    /\ abi.types[responseType].kind = "enum"
    /\ hexResponses[1] # << >>
    /\ hexResponses[1][1] < Len(abi.types[responseType].variants)

\* C8: an enum read takes the variant at the 0-based position of the
\* discriminant byte; a variant with fields gives the one-key record
\* {variant: {field: value, ...}}, the fields read in declared order from the
\* bytes after the discriminant, and consumes 1 + what the fields consumed.
C8_EnumWithFields ==
    IsEnumRead =>
       LET data == hexResponses[1]
           variant == abi.types[responseType].variants[data[1] + 1]
           end == FieldStart(data, variant.fields, 1, Len(variant.fields) + 1)
       IN  ( variant.fields # << >> /\ end >= 0 )
           => result = Ok(ObjV(<< << variant.name,
                                     FieldRecord(data, variant.fields, 1) >> >>),
                          end)

\* the third variant, with both of its fields present
C8_Witness ==
    /\ IsEnumRead
    /\ hexResponses = << << 2, 0, 0, 0, 1, 2, 1 >> >>
    /\ result = Ok(ObjV(<< << "Some", ObjV(<< << "amount", StrV(<< 48, 50 >>) >>,
                                               << "a", NumV(<< 49 >>) >> >>) >> >>), 7)

\* C9 as claimed: a variant without fields, its field list absent or empty,
\* decodes to its bare name with one byte consumed.
C9_Original ==
    IsEnumRead =>
       LET variant == abi.types[responseType].variants[hexResponses[1][1] + 1]
       IN  variant.fields = << >> => result = Ok(NameV(variant.name), 1)

IsStructRead ==
    /\ Done("readHex")
    /\ HasCustomType(responseType)
    /\ abi.types[responseType].kind = "struct"
    /\ hexResponses[1] # << >>

\* C10: a struct read decodes the fields in declaration order, each from
\* where the one before ended, into the record {field: value, ...} and
\* consumes the sum of what the fields consumed; Pair{x:u32,y:u32} over
\* [0,0,0,1,0,0,0,2] is {x:1, y:2} with 8 bytes consumed.
C10_Struct ==
    /\ IsStructRead =>
         LET data == hexResponses[1]
             fields == abi.types[responseType].fields
             end == FieldStart(data, fields, 0, Len(fields) + 1)
         IN  /\ end >= 0 => result = Ok(FieldRecord(data, fields, 0), end)
             /\ ( responseType = Pair /\ data = << 0, 0, 0, 1, 0, 0, 0, 2 >> )
                => result = Ok(ObjV(<< << "x", NumV(<< 49 >>) >>,
                                       << "y", NumV(<< 50 >>) >> >>), 8)
    /\ ( /\ Done("parseHexResponse")
         /\ HasCustomType(Pair)
         /\ responseType = Pair
         /\ hexResponses = << << 0, 0, 0, 1, 0, 0, 0, 2 >> >> )
       => result = Ret(ObjV(<< << "x", NumV(<< 49 >>) >>, << "y", NumV(<< 50 >>) >> >>))

\* the worked example of the specification
C10_Witness ==
    /\ IsStructRead
    /\ responseType = Pair
    /\ hexResponses = << << 0, 0, 0, 1, 0, 0, 0, 2 >> >>
    /\ result.st = "ok"
    /\ result.len = 8

(***************************************************************************)
(* The empty-buffer policy, unknown type names, the construction options.  *)
(***************************************************************************)

\* the numeric primitives other than the big integer
C11_SmallNumeric == { U8, I8, U16, I16, U32, I32, U64, I64, Isize, Usize }

\* what the empty-buffer policy answers for a type read at top level or not
C11_Expected(type, top) ==
    IF top /\ type = BigUint THEN StrV(<< 48 >>)
    ELSE IF top /\ type \in C11_SmallNumeric THEN NumV(<< 48 >>)
    ELSE NullV

\* C11: readHex of a zero-length buffer returns ("0", 0) for BigUint at top
\* level, (0, 0) for any other numeric primitive at top level and (null, 0)
\* in every other case (non-numeric, nested, unknown type); it never throws
\* and consumes nothing.
C11_EmptyBuffer ==
    (Done("readHex") /\ hexResponses[1] = << >>)
    => result = Ok(C11_Expected(responseType, topFlag), 0)

\* reached: the empty buffer read as a top-level BigUint gives ("0", 0)
C11_Witness ==
    /\ Done("readHex")
    /\ hexResponses[1] = << >>
    /\ topFlag
    /\ responseType = BigUint
    /\ result = Ok(StrV(<< 48 >>), 0)

\* type names that resolve to nothing the decoder supports: a name the ABI
\* does not declare, a registry entry of an unsupported kind, array2<u8>
C12_Unknown == { Foo, Legacy, Gen(WArray2, U8) }

\* the explored type expressions that mention such a name
C12_Mentions(type) == \E u \in C12_Unknown : Includes(type, u) \/ type = Odd

\* the error of the unknown name u, rethrown by the catch of each enclosing type
C12_Error(outer, u) ==
    [st |-> "err", cause |-> "Unsupported type provided", trail |-> outer \o << u >>]

\* C12 (as stated): decoding a non-empty buffer against a type expression that
\* mentions an unknown type name anywhere always fails with an error.
C12_Original ==
    (Done("readHex") /\ hexResponses[1] # << >> /\ C12_Mentions(responseType))
    => result.st = "err"

\* C12 (amended): on a non-empty buffer an unknown type name fails, with an
\* error naming it, when it is the type itself or is reached with a non-empty
\* remaining slice (under List, optional, variadic, after a nonzero Option flag,
\* as a later multi element or struct field); it yields null without an error
\* when the slice left for it is empty or when it is never read (Option flag 0).
C12_UnknownType ==
    LET data == hexResponses[1]
        t == responseType
        MultiFoo == Gen(WMulti, U8 \o << "," >> \o Foo)
        first == NumV(DecimalOf(<< data[1] >>))
    IN  (Done("readHex") /\ data # << >>) =>
        /\ t \in C12_Unknown => result = C12_Error(<< >>, t)
        /\ t \in { Gen(WList, Foo), Gen(WOptional, Foo), Gen(WVariadic, Foo) }
              => result = C12_Error(<< t >>, Foo)
        /\ t = Gen(WOption, Foo) =>
              result = IF data[1] # 0 /\ Len(data) > 1
                       THEN C12_Error(<< t >>, Foo) ELSE Ok(NullV, 1)
        /\ t = MultiFoo =>
              result = IF Len(data) > 1 THEN C12_Error(<< t >>, Foo)
                       ELSE Ok(ArrV(<< first, NullV >>), 1)
        /\ t = Odd =>
              result = IF Len(data) > 1 THEN C12_Error(<< t >>, Foo)
                       ELSE Ok(ObjV(<< << "a", first >>, << "b", NullV >> >>), 1)

\* reached: Option<Foo> read past a nonzero flag fails on Foo
C12_Witness ==
    /\ Done("readHex")
    /\ responseType = Gen(WOption, Foo)
    /\ hexResponses[1] = << 1, 2 >>
    /\ result = C12_Error(<< responseType >>, Foo)

\* C13 (as stated): a converter constructed with decodeBase64 = false returns
\* a nested (length-prefixed) byte string whose content is valid base64 as the
\* raw string, without base64 decoding.
C13_Original ==
    LET data == hexResponses[1]
        raw == AsciiOf(LPBytes(data))
    IN  ( /\ Done("readHex")
          /\ ~options.decodeBase64
          /\ responseType = Bytes
          /\ ~topFlag
          /\ LPOk(data)
          /\ isBase64(raw) )
        => result = Ok(StrV(raw), 4 + U32Of(data))

(***************************************************************************)
(* The type-name converter: wrappers, multi, structs, base types, brackets.*)
(***************************************************************************)

\* bracket depth after the first n characters of s
DepthAt(s, n) ==
    Cardinality({ j \in 1..n : s[j] = "<" }) - Cardinality({ j \in 1..n : s[j] = ">" })

\* every '>' closes an earlier '<' and every '<' is closed
WellBracketed(s) ==
    /\ \A n \in 1..Len(s) : DepthAt(s, n) >= 0
    /\ DepthAt(s, Len(s)) = 0

\* a type name written without blanks around it
IsTypeName(s) == s # << >> /\ s = Trim(s) /\ WellBracketed(s)

\* convertArg is W<T> for a wrapper W of the converter and a type name T
C14_Wrapper(w) ==
    /\ StartsWith(convertArg, w \o << "<" >>)
    /\ EndsWith(convertArg, << ">" >>)
    /\ IsTypeName(Slice(convertArg, Len(w) + 1, 1))
    /\ convertArg \notin DOMAIN abi.types

\* the lower-case prefix of each wrapper
C14_Prefix ==
    (WOption :> << "o", "p", "t", "i", "o", "n", ":" >>)
    @@ (WOptional :> << "o", "p", "t", "i", "o", "n", "a", "l", ":" >>)
    @@ (WList :> << "l", "i", "s", "t", ":" >>)
    @@ (WVariadic :> << "v", "a", "r", "i", "a", "d", "i", "c", ":" >>)

\* C14: for W in {Option, optional, List, variadic} and a well-bracketed inner
\* type name T (written without surrounding blanks), W<T> not a registry key,
\* convertType("W<T>") is the lower-case prefix "w:" followed by
\* convertType(T), the closing bracket of W being found by depth counting; it
\* fails exactly when convertType(T) fails.
C14_Wrappers ==
    \A w \in DOMAIN C14_Prefix :
        (Done("convertType") /\ C14_Wrapper(w)) =>
            LET inner == convertType(Slice(convertArg, Len(w) + 1, 1))
            IN  IF inner.st = "ok"
                THEN result = Ret(C14_Prefix[w] \o inner.value)
                ELSE result.st = "err"

\* reached: convertType("List<Option<BigUint>>") = "list:option:biguint"
C14_Witness ==
    /\ Done("convertType")
    /\ convertArg = Gen(WList, Gen(WOption, BigUint))
    /\ C14_Wrapper(WList)
    /\ result = Ret(<< "l", "i", "s", "t", ":", "o", "p", "t", "i", "o", "n", ":",
                  "b", "i", "g", "u", "i", "n", "t" >>)

\* the positions of the commas of s at bracket depth 0
C15_Cuts(s) == { i \in 1..Len(s) : s[i] = "," /\ DepthAt(s, i) = 0 }

\* s cut at those commas: the written subtypes T1, ..., Tn, in order
C15_Pieces(s) ==
    LET starts == { 0 } \cup C15_Cuts(s)
        ends == C15_Cuts(s) \cup { Len(s) + 1 }
        nth(k) == CHOOSE c \in starts : Cardinality({ b \in starts : b < c }) = k - 1
        stop(c) == CHOOSE e \in ends : e > c /\ \A f \in ends : f > c => e <= f
    IN  [k \in 1..Cardinality(starts) |-> Trim(SubSeq(s, nth(k) + 1, stop(nth(k)) - 1))]

\* convertArg is multi<T1,...,Tn> for type names T1..Tn
C15_Multi ==
    /\ StartsWith(convertArg, PatMulti)
    /\ EndsWith(convertArg, << ">" >>)
    /\ convertArg \notin DOMAIN abi.types
    /\ LET inner == Slice(convertArg, Len(PatMulti), 1)
       IN  /\ WellBracketed(inner)
           /\ \A k \in DOMAIN C15_Pieces(inner) : IsTypeName(C15_Pieces(inner)[k])

\* C15: convertType("multi<T1,...,Tn>") cuts the inner list only at commas of
\* bracket depth 0 and returns "composite(" convertType(T1) "|" ... "|"
\* convertType(Tn) ")", the subtypes in their written order and without field
\* names, also when some Ti is generic or a nested multi; it fails exactly
\* when some convertType(Ti) fails.
C15_MultiComposite ==
    (Done("convertType") /\ C15_Multi) =>
        LET pieces == C15_Pieces(Slice(convertArg, Len(PatMulti), 1))
            converted == [k \in DOMAIN pieces |-> convertType(pieces[k])]
        IN  IF \A k \in DOMAIN pieces : converted[k].st = "ok"
            THEN result = Ret(<< "c", "o", "m", "p", "o", "s", "i", "t", "e",
                                 "(" >>
                              \o Join([k \in DOMAIN pieces |-> converted[k].value],
                                      << "|" >>)
                              \o << ")" >>)
            ELSE result.st = "err"

\* reached: convertType("multi<Address,List<u32>>") = "composite(address|list:uint32)"
C15_Witness ==
    /\ Done("convertType")
    /\ C15_Multi
    /\ convertArg = Gen(WMulti, Address \o << "," >> \o Gen(WList, U32))
    /\ result = Ret(<< "c", "o", "m", "p", "o", "s", "i", "t", "e", "(", "a", "d",
                  "d", "r", "e", "s", "s", "|", "l", "i", "s", "t", ":", "u",
                  "i", "n", "t", "3", "2", ")" >>)

\* convertArg names a registry struct
C16_Struct ==
    /\ convertArg \in DOMAIN abi.types
    /\ abi.types[convertArg].kind = "struct"

\* C16: for a registry struct with fields f1:T1, ..., fn:Tn, convertType of
\* its name is "composite(f1:" convertType(T1) "|...|fn:" convertType(Tn) ")"
\* with the fields in declaration order and each field type converted
\* recursively; Entry [a: Address, b: u64] gives "composite(a:address|b:uint64)"
\* and Pair {x:u32, y:u32} gives "composite(x:uint32|y:uint32)".
C16_StructComposite ==
    (Done("convertType") /\ C16_Struct) =>
        LET fields == abi.types[convertArg].fields
            converted == [i \in DOMAIN fields |-> convertType(fields[i].type)]
        IN  /\ \A i \in DOMAIN fields : converted[i].st = "ok"
            /\ result = Ret(<< "c", "o", "m", "p", "o", "s", "i", "t", "e", "(" >>
                            \o Join([i \in DOMAIN fields |->
                                        Chars[fields[i].name] \o << ":" >>
                                        \o converted[i].value],
                                    << "|" >>)
                            \o << ")" >>)
            /\ convertArg = Entry => result = Ret(<< "c", "o", "m", "p", "o", "s",
                                               "i", "t", "e", "(", "a", ":",
                                               "a", "d", "d", "r", "e", "s",
                                               "s", "|", "b", ":", "u", "i",
                                               "n", "t", "6", "4", ")" >>)
            /\ convertArg = Pair => result = Ret(<< "c", "o", "m", "p", "o", "s",
                                               "i", "t", "e", "(", "x", ":",
                                               "u", "i", "n", "t", "3", "2",
                                               "|", "y", ":", "u", "i", "n",
                                               "t", "3", "2", ")" >>)
            /\ convertArg = Nest => result = Ret(<< "c", "o", "m", "p", "o", "s",
                                               "i", "t", "e", "(", "p", ":",
                                               "c", "o", "m", "p", "o", "s",
                                               "i", "t", "e", "(", "x", ":",
                                               "u", "i", "n", "t", "3", "2",
                                               "|", "y", ":", "u", "i", "n",
                                               "t", "3", "2", ")", "|", "l",
                                               ":", "l", "i", "s", "t", ":",
                                               "u", "i", "n", "t", "3", "2",
                                               "|", "k", ":", "u", "i", "n",
                                               "t", "6", "4", ")" >>)

\* reached: the struct Entry [a: Address, b: u64] converted, a before b
C16_Witness ==
    /\ Done("convertType")
    /\ C16_Struct
    /\ convertArg = Entry
    /\ result = Ret(<< "c", "o", "m", "p", "o", "s", "i", "t", "e", "(", "a", ":",
                  "a", "d", "d", "r", "e", "s", "s", "|", "b", ":", "u", "i",
                  "n", "t", "6", "4", ")" >>)

\* the base-type table, as the claim lists it
C17_Table ==
    (Address :> D_address) @@ (BigUint :> D_biguint) @@ (U8 :> D_uint8)
    @@ (I8 :> D_int8) @@ (U16 :> D_uint16) @@ (U32 :> D_uint32)
    @@ (U64 :> D_uint64) @@ (Bool :> D_bool) @@ (Bytes :> D_string)
    @@ (TokenIdentifier :> D_token) @@ (EgldOrEsdtTokenIdentifier :> D_token)

\* convertArg is a name that no earlier branch of convertType takes
C17_Plain ==
    /\ convertArg # << >>
    /\ convertArg \notin DOMAIN abi.types
    /\ ~StartsWith(convertArg, PatMulti)
    /\ \A w \in DOMAIN C14_Prefix : ~StartsWith(convertArg, w \o << "<" >>)

C18_Unbalanced ==
    /\ \/ StartsWith(convertArg, PatMulti)
       \/ \E w \in DOMAIN C14_Prefix : StartsWith(convertArg, w \o << "<" >>)
    /\ ~WellBracketed(convertArg)

\* C18 (as stated): convertType of a wrapper or multi name with unbalanced
\* angle brackets always fails with an InvalidTypeError and never returns a
\* descriptor for such a name.
C18_Original ==
    (Done("convertType") /\ C18_Unbalanced) =>
        (result.st = "err" /\ result.kind = "InvalidTypeError")

(***************************************************************************)
(* The endpoint transformer: order and position of the inputs, required.   *)
(***************************************************************************)

\* endpointToWarp has returned a Warp
WarpBuilt == Done("endpointToWarp") /\ result.st = "ok"

\* the number of descriptors that precede those of the declared inputs
PaymentCount == Len(result.value.inputs) - Len(endpointArg.inputs)

\* the descriptor of the i-th declared input (1-based)
DeclaredInput(i) == result.value.inputs[PaymentCount + i]

\* C19: in the input list built by endpointToWarp all payment descriptors
\* (position value or transfer) come before all declared-input descriptors,
\* the declared inputs appear in declaration order, and the i-th declared
\* input (1-based) has position arg:i however many payment descriptors precede.
C19_InputOrder ==
    WarpBuilt =>
        /\ PaymentCount \in 0..2
        /\ \A j \in 1..PaymentCount :
              result.value.inputs[j].position \in { S_value, S_transfer }
        /\ \A i \in 1..Len(endpointArg.inputs) :
              /\ DeclaredInput(i).name = endpointArg.inputs[i].name
              /\ DeclaredInput(i).position
                    = << "a", "r", "g", ":" >> \o << DigitChars[i + 1] >>

\* reached: two payment descriptors (wildcard) before two declared inputs
C19_Witness ==
    /\ WarpBuilt
    /\ PaymentCount = 2
    /\ Len(endpointArg.inputs) = 2
    /\ DeclaredInput(1).position = << "a", "r", "g", ":", "1" >>
    /\ DeclaredInput(2).position = << "a", "r", "g", ":", "2" >>

\* C20 (as stated): the required flag of the descriptor of a declared input
\* is false exactly when its ABI type name begins with optional< and true for
\* every other type name; no other step changes it.
C20_Original ==
    WarpBuilt =>
        \A i \in 1..Len(endpointArg.inputs) :
            DeclaredInput(i).required
                = ~StartsWith(endpointArg.inputs[i].type,
                              << "o", "p", "t", "i", "o", "n", "a", "l", "<" >>)

(***************************************************************************)
(* The generator's entry point, the frame of the calls.                    *)
(***************************************************************************)

\* the positions of the endpoints of the ABI document that are not owner-only
C21_Public == { k \in DOMAIN abi.endpoints : abi.endpoints[k].onlyOwner # "true" }

\* the i-th of them in declaration order
C21_Nth(i) == CHOOSE k \in C21_Public : Cardinality({ j \in C21_Public : j <= k }) = i

\* generateWarps was called with a valid address on a generator that has an ABI
C21_Called ==
    /\ Done("generateWarps")
    /\ StartsWith(addressArg, PatErd1)
    /\ abi # NoAbi

\* the result holds one Warp per public endpoint, in declaration order
C21_OnePerPublic ==
    /\ result.st = "ok"
    /\ Len(result.value) = Cardinality(C21_Public)
    /\ \A i \in 1..Cardinality(C21_Public) :
          /\ result.value[i].func = abi.endpoints[C21_Nth(i)].name
          /\ result.value[i].address = addressArg
          /\ result.value[i].type =
                IF abi.endpoints[C21_Nth(i)].mutability = "readonly" THEN "query"
                ELSE "contract"

C21_Failing ==
    { k \in C21_Public :
        endpointToWarp(addressArg, abi.name, abi.endpoints[k]).st = "err" }

C22_SameResult ==
    pc = "done" =>
        \A i \in DOMAIN history :
            history[i].call = CurrentCall => history[i].result = result

C23_Variadic ==
    /\ Done("parseHexResponse")
    /\ Len(hexResponses) = 1
    /\ StartsWith(responseType, PatVariadic)
    /\ EndsWith(responseType, << ">" >>)
    /\ Len(responseType) >= Len(PatVariadic) + 2
    /\ ~IsVariadicMulti(responseType)

\* C23: variadic<T> is transparent: for every single buffer b (the zero-length
\* buffer too) and every T that is not a multi with commas,
\* parseHexResponse([b], "variadic<T>") returns the value that
\* parseHexResponse([b], "T") returns.
C23_Original ==
    C23_Variadic =>
        LET direct == parseHexResponse(hexResponses, StripVariadic(responseType))
        IN  (result.st = "ok" \/ direct.st = "ok") => result = direct

\* the names of an array of two u8: array2<u8>, and array<2><u8> as the
\* specification writes the form
C24_Arrays == { Gen(WArray2, U8), Gen(WArray, << "2" >>) \o Gen(<< >>, U8) }

\* C24: decoding a fixed-size array type whose name carries the count N and
\* the element type T decodes exactly N consecutive T values from the
\* advancing tail; consumed is the sum of the elements' consumed bytes.
C24_Original ==
    (/\ Done("readHex")
     /\ responseType \in C24_Arrays
     /\ Len(hexResponses[1]) >= 2) =>
        LET data == hexResponses[1]
        IN  result = Ok(ArrV(<< readHex(<< data[1] >>, U8, FALSE).value,
                                readHex(<< data[2] >>, U8, FALSE).value >>), 2)

\* the decode of one u8 / one u16 standing at the head of data
C25_U8(data, i) == readHex(<< data[i] >>, U8, FALSE).value
C25_U16(data, i) == readHex(<< data[i], data[i + 1] >>, U16, FALSE).value

\* C25: decoding multi<T1,...,Tn> or tuple<T1,...,Tn>, the subtypes possibly
\* parametric themselves (a nested multi), decodes each subtype in written
\* order from the advancing tail and returns the n-element sequence, with
\* consumed the sum of the subtypes' consumed bytes.
C25_Original ==
    (Done("readHex") /\ Len(hexResponses[1]) >= 3) =>
        LET data == hexResponses[1]
        IN  /\ responseType = Gen(WMulti, U8 \o << "," >> \o U16) =>
                  result = Ok(ArrV(<< C25_U8(data, 1), C25_U16(data, 2) >>), 3)
            /\ responseType = Gen(WMulti, U8 \o << "," >> \o Gen(WMulti, U8 \o << "," >> \o U8)) =>
                  result = Ok(ArrV(<< C25_U8(data, 1),
                                      ArrV(<< C25_U8(data, 2), C25_U8(data, 3) >>) >>), 3)

\* the read parseHexResponse makes of response number i: of the subtype of its
\* place in the chunk in the variadic<multi<...>> branch, of the response type
\* otherwise
C26_Read(i) ==
    IF IsVariadicMulti(responseType)
    THEN C2_Read(i, ((i - 1) % Len(C2_Types)) + 1)
    ELSE RegularRead(i)

\* the type name that read is given
C26_TypeRead(i) ==
    IF IsVariadicMulti(responseType)
    THEN Trim(C2_Types[((i - 1) % Len(C2_Types)) + 1])
    ELSE responseType

\* the responses whose read raises an error, none before them running forever
C26_Raising ==
    { i \in DOMAIN hexResponses :
        /\ C26_Read(i).st = "err"
        /\ \A j \in 1..(i - 1) : C26_Read(j).st # "hang" }

\* C26: whenever the decode of a nested element raises an error (unknown
\* type, fixed-width read past the end of the buffer, enum discriminant without
\* a variant), the whole parseHexResponse call fails with an error whose
\* message names the types that were being decoded (the type of the read, then
\* every nested type down to the one that raised); nothing decoded before,
\* in the same buffer or in earlier buffers, is returned.
C26_NestedErrors ==
    (Done("parseHexResponse") /\ C26_Raising # {}) =>
        LET i == CHOOSE r \in C26_Raising : \A q \in C26_Raising : r <= q
        IN  /\ result.st = "err"
            /\ result.cause \in { "Unsupported type provided", "ERR_OUT_OF_RANGE",
                                  "TypeError", "Unsupported primitive type",
                                  "ErrAddressCannotCreate", "Invalid array type format" }
            /\ result.trail # << >>
            /\ result.trail[1] = C26_TypeRead(i)
            /\ result = C26_Read(i)
            /\ "value" \notin DOMAIN result

\* the second of two buffers holds a list whose last element has no variant;
\* the first buffer and the earlier elements decode
C26_Witness ==
    /\ Done("parseHexResponse")
    /\ Len(hexResponses) = 2
    /\ C26_Read(1).st = "ok"
    /\ C26_Raising = { 2 }
    /\ result.cause = "TypeError"
    /\ Len(result.trail) = 2
    /\ result.trail[2] = Flag

(***************************************************************************)
(* The generator: malformed input, payment inputs, validation hints.       *)
(***************************************************************************)

\* an input without a name or without a type
C27_Lacking(input) == input.name = << >> \/ input.type = << >>

\* an endpoint without a name, or whose first declared input lacks a name or a
\* type
C27_MalformedEndpoint(endpoint) ==
    \/ endpoint.name = << >>
    \/ (endpoint.inputs # << >> /\ C27_Lacking(endpoint.inputs[1]))

\* the call was given malformed input: a bad address or no ABI for
\* generateWarps, a malformed endpoint for endpointToWarp, a malformed first
\* public endpoint for generateWarps
C27_Malformed ==
    \/ /\ Done("generateWarps")
       /\ \/ ~StartsWith(addressArg, PatErd1)
          \/ abi = NoAbi
          \/ (C21_Public # {} /\ C27_MalformedEndpoint(abi.endpoints[C21_Nth(1)]))
    \/ /\ Done("endpointToWarp")
       /\ C27_MalformedEndpoint(endpointArg)

\* C27: malformed call-site input (an address that does not have the address
\* format, a missing ABI, an endpoint without a name, a declared input lacking
\* a name or a type) always makes generateWarps / endpointToWarp fail with an
\* error of kind InvalidInputError, and no Warp is returned.
C27_Original ==
    C27_Malformed => (result.st = "err" /\ result.kind = "InvalidInputError")

\* the payment inputs of the action built: what precedes the declared inputs
C28_Payment == SubSeq(result.value.inputs, 1, PaymentCount)

\* the places of the native-currency input and of the token input among them
C28_Native == { i \in DOMAIN C28_Payment : C28_Payment[i].position = S_value }
C28_Token == { i \in DOMAIN C28_Payment : C28_Payment[i].position = S_transfer }

C28_Accepts(token) ==
    \E i \in DOMAIN endpointArg.payableInTokens : endpointArg.payableInTokens[i] = token
C28_AcceptsOther ==
    \E i \in DOMAIN endpointArg.payableInTokens :
        endpointArg.payableInTokens[i] # "EGLD"

\* C28: createPaymentInputs emits a native-currency input (position value)
\* exactly when EGLD or the wildcard is accepted and a token input (position
\* transfer) exactly when the wildcard or a non-EGLD token is accepted;
\* whenever both are emitted the native-currency input precedes the token
\* input; an absent or empty list yields no payment input.
C28_Original ==
    WarpBuilt =>
        /\ C28_Native \cup C28_Token = DOMAIN C28_Payment
        /\ Cardinality(C28_Native) = (IF C28_Accepts("EGLD") \/ C28_Accepts("*") THEN 1 ELSE 0)
        /\ Cardinality(C28_Token) = (IF C28_AcceptsOther THEN 1 ELSE 0)
        /\ \A n \in C28_Native, t \in C28_Token : n < t
        /\ endpointArg.payableInTokens = << >> => C28_Payment = << >>


\* the hints a declared input of the action built must carry when the
\* containment tests are made on name: min 0 for BigUint (scale:18 for exactly
\* BigUint), else the address pattern, else the token pattern, else neither
C29_Hints(d, name) ==
    IF Includes(name, BigUint)
    THEN /\ d.min = << 0 >>
         /\ d.pattern = Absent
         /\ (d.modifier = "scale:18") <=> (name = BigUint)
    ELSE IF Includes(name, Address)
    THEN d.min = << >> /\ d.modifier # "scale:18" /\ d.pattern = "MULTIVERSX_ADDRESS"
    ELSE IF Includes(name, TokenIdentifier)
    THEN d.min = << >> /\ d.modifier # "scale:18" /\ d.pattern = "TOKEN_IDENTIFIER"
    ELSE d.min = << >> /\ d.modifier # "scale:18" /\ d.pattern = Absent

\* what follows the last ':' of a type name, the whole name when it has none
C29_LastSegment(name) == Slice(name, LastIndexOf(name, ":", Len(name)), 0)

\* C29: getInputValidations gives each declared input the hints of at most
\* one kind, chosen by the first match of substring containment in the ABI
\* type name: BigUint gets min 0 (scale:18 only when the name is exactly
\* BigUint), otherwise Address gets the address pattern, otherwise
\* TokenIdentifier gets the token pattern; min and pattern never meet.
C29_Original ==
    WarpBuilt =>
        \A i \in DOMAIN endpointArg.inputs :
            C29_Hints(DeclaredInput(i), endpointArg.inputs[i].type)

\* C29 as the code has it: the containment tests, and the test for exactly
\* BigUint, are made on what follows the last ':' of the declared type name
\* (the whole name when it has no ':'); the first match in the order BigUint,
\* Address, TokenIdentifier decides, and no declared input carries both a
\* minimum and a pattern.
C29_FirstMatch ==
    WarpBuilt =>
        \A i \in DOMAIN endpointArg.inputs :
            /\ C29_Hints(DeclaredInput(i), C29_LastSegment(endpointArg.inputs[i].type))
            /\ ~(DeclaredInput(i).min # << >> /\ DeclaredInput(i).pattern # Absent)

\* an action is built from an input whose type names both Address and BigUint:
\* it carries the minimum and no pattern
C29_Witness ==
    /\ WarpBuilt
    /\ \E i \in DOMAIN endpointArg.inputs :
          /\ Includes(endpointArg.inputs[i].type, Address)
          /\ Includes(endpointArg.inputs[i].type, BigUint)
          /\ DeclaredInput(i).min = << 0 >>
          /\ DeclaredInput(i).pattern = Absent

(***************************************************************************)
(* The codec: termination of the list loop.                                *)
(***************************************************************************)

\* a read of a list type has returned or thrown, or its loop never ends
C30_ListRead ==
    /\ op = "readHex"
    /\ pc = "done"
    /\ StartsWith(responseType, WList \o << "<" >>)

\* C30: list decoding terminates for every element type and every finite
\* buffer: each iteration of the readListType loop strictly advances the
\* offset, so the loop ends after at most data.length iterations.
C30_Original == C30_ListRead => result.st # "hang"

====
